---- MODULE Spec2Model ----
(***************************************************************************)
(* Model of the portfolio simulator of python_backtest/backtester.py:      *)
(* Backtester.run processes the price bars one by one and fills the        *)
(* portfolio table; the metrics are computed from the finished table.      *)
(* Amounts are exact rationals <<n, d>> (d > 0, lowest terms), standing    *)
(* for the floats of the code without their rounding.                      *)
(***************************************************************************)
EXTENDS Integers, Sequences, FiniteSets, TLC

VARIABLES
    data,              \* the price bars: sequence of [Close, time, date]
    signals,           \* strategy.generate_signals(data): one of -1, 0, 1 per bar
    initial_capital,   \* self.initial_capital
    position_size,     \* self.position_size
    stop_loss,         \* self.stop_loss
    reinvest_profits,  \* self.reinvest_profits
    portfolio,         \* the portfolio DataFrame: one row per bar
    i,                 \* number of bars the loop has processed (the code's i + 1)
    position,          \* local position: 0 flat, 1 long, -1 short
    entry_price,       \* local entry_price
    entry_time,        \* local entry_time (bar number, 0 for None)
    daily_start_value, \* local daily_start_value
    total_value,       \* local total_value of the bar processed last
    pc,                \* "loop", "metrics" (loop left), "done" (results returned)
    results,           \* the returned dict
    earlier,           \* the dict an earlier run() on the same objects returned
    strategies,        \* run_multiple_strategies: the signals of each strategy of
                       \* the dict, in its order (empty outside a comparison)
    comparison,        \* run_multiple_strategies: its results dict and best_strategy
    call               \* the strategy method being executed: its name, arguments
                       \* and locals (method "none" while the simulator runs)

vars == <<data, signals, initial_capital, position_size, stop_loss,
          reinvest_profits, portfolio, i, position, entry_price, entry_time,
          daily_start_value, total_value, pc, results, earlier, strategies,
          comparison, call>>

\* the variables of the simulator
simulator == <<data, signals, initial_capital, position_size, stop_loss,
               reinvest_profits, portfolio, i, position, entry_price,
               entry_time, daily_start_value, total_value, pc, results,
               earlier, strategies, comparison>>

-----------------------------------------------------------------------------
(* Bounds and input sets *)

MaxBars == 4

PriceSeries ==
    { <<100, 101, 99, 95, 100, 101>>,
      <<100, 160, 50, 100, 200, 100>>,
      <<100, 50, 100, 100, 50, 100>> }

\* bar timestamps, in hours since midnight of the first calendar day: hourly
\* bars of one day, 12-hour bars from midnight, 12-hour bars from noon
TimeSeries ==
    { <<0, 1, 2, 3, 4, 5>>,
      <<0, 12, 24, 36, 48, 60>>,
      <<12, 24, 36, 48, 60, 72>> }

SignalValues == {-1, 0, 1}

-----------------------------------------------------------------------------
(* Rational arithmetic *)

Abs(x) == IF x < 0 THEN -x ELSE x

RECURSIVE GCD(_, _)
GCD(a, b) == IF b = 0 THEN a ELSE GCD(b, a % b)

Norm(n, d) == LET g == GCD(Abs(n), d) IN <<n \div g, d \div g>>

Rat(n) == <<n, 1>>

Zero == <<0, 1>>

One == <<1, 1>>

Half == <<1, 2>>

RNeg(a) == <<-a[1], a[2]>>

RAdd(a, b) ==
    LET g == GCD(a[2], b[2])
    IN  Norm(a[1] * (b[2] \div g) + b[1] * (a[2] \div g), (a[2] \div g) * b[2])

RSub(a, b) == RAdd(a, RNeg(b))

RMul(a, b) ==
    LET g1 == GCD(Abs(a[1]), b[2])
        g2 == GCD(Abs(b[1]), a[2])
    IN  Norm((a[1] \div g1) * (b[1] \div g2), (a[2] \div g2) * (b[2] \div g1))

RInv(a) == IF a[1] > 0 THEN <<a[2], a[1]>> ELSE <<-a[2], -a[1]>>

RDiv(a, b) == RMul(a, RInv(b))

RLt(a, b) ==
    LET g == GCD(a[2], b[2])
    IN  a[1] * (b[2] \div g) < b[1] * (a[2] \div g)

RLe(a, b) == a = b \/ RLt(a, b)

RGt(a, b) == RLt(b, a)

RGe(a, b) == RLe(b, a)

RMin(a, b) == IF RLe(a, b) THEN a ELSE b

RAbs(a) == <<Abs(a[1]), a[2]>>

\* the floats that are not finite: not-a-number, +infinity, -infinity
NaN == <<0, 0>>

Inf == <<1, 0>>

NegInf == <<-1, 0>>

IsFinite(a) == a[2] # 0

\* a finite float that is irrational or too long to evaluate exactly: it is
\* kept as the tuple of the arguments it is computed from
Unevaluated(args) == <<1, 1>> \o args

-----------------------------------------------------------------------------
(* Construction: run() up to the start of the loop *)

Capitals == { Half, One, Rat(100) }

PositionSizes == { Half, One }

StopLosses == { <<1, 100>>, Half, One }

\* the calendar day of a timestamp
DateOf(t) == t \div 24 + 1

Bars(ps, ts, n) ==
    [k \in 1..n |-> [Close |-> Rat(ps[k]), time |-> ts[k], date |-> DateOf(ts[k])]]

InitialRow(bar, sig, capital) ==
    [price |-> bar.Close, signal |-> sig, position |-> Zero, cash |-> capital,
     holdings |-> Zero, total_value |-> capital, daily_pnl |-> Zero,
     entry_price |-> Zero]

Init ==
    /\ \E n \in 1..MaxBars : \E ps \in PriceSeries : \E ts \in TimeSeries :
          data = Bars(ps, ts, n)
    /\ signals \in [1..Len(data) -> SignalValues]
    /\ initial_capital \in Capitals
    /\ position_size \in PositionSizes
    /\ stop_loss \in StopLosses
    /\ reinvest_profits = TRUE
    /\ portfolio = [k \in 1..Len(data) |->
                        InitialRow(data[k], signals[k], initial_capital)]
    /\ i = 0
    /\ position = 0
    /\ entry_price = Zero
    /\ entry_time = 0
    /\ daily_start_value = initial_capital
    /\ total_value = Zero
    /\ pc = "loop"
    /\ results = [returned |-> FALSE]
    /\ earlier = [returned |-> FALSE]
    /\ strategies = <<>>
    /\ comparison = [results |-> <<>>, best_strategy |-> 0]
    /\ call = [method |-> "none"]

-----------------------------------------------------------------------------
(* One iteration of the loop of run(), for bar k (the code's i = k - 1) *)

Sign(x) == IF RGt(x, Zero) THEN 1 ELSE IF RLt(x, Zero) THEN -1 ELSE 0

\* position at the start of the bar, from the previous row
CurrentPosition(k) == IF k > 1 THEN Sign(portfolio[k-1].position) ELSE 0

IsNewDay(k) == k > 1 /\ data[k].date # data[k-1].date

Reinvests(k) ==
    /\ IsNewDay(k)
    /\ reinvest_profits
    /\ RGt(portfolio[k-1].total_value, daily_start_value)

\* portfolio['cash'].iloc[i] before the trade rules run
CarriedCash(k) ==
    IF k = 1 THEN initial_capital
    ELSE IF Reinvests(k)
         THEN RAdd(portfolio[k-1].cash,
                   RSub(portfolio[k-1].total_value, daily_start_value))
         ELSE portfolio[k-1].cash

NextDailyStartValue(k) ==
    IF IsNewDay(k) THEN portfolio[k-1].total_value ELSE daily_start_value

LossPct(pos, entry, price) ==
    IF pos = 1 THEN RDiv(RSub(entry, price), entry)
               ELSE RDiv(RSub(price, entry), entry)

StopLossTriggeredStrict(pos, entry, price) ==
    pos # 0 /\ RGt(LossPct(pos, entry, price), stop_loss)

StopLossTriggered(pos, entry, price) ==
    pos # 0 /\ RGe(LossPct(pos, entry, price), stop_loss)

\* the stop-loss override of the strategy's signal
StopLossSignal(pos, entry, price, sig) ==
    IF StopLossTriggered(pos, entry, price)
    THEN IF pos = 1 THEN -1 ELSE 1
    ELSE sig

\* the signal the trade rules see
BarSignal(k) ==
    StopLossSignal(CurrentPosition(k), entry_price, data[k].Close, signals[k])

TradeRuleAddsToPosition(sig, pos) ==
    IF sig = 1 /\ pos >= 0 THEN "enter_long"
    ELSE IF sig = -1 /\ pos <= 0 THEN "enter_short"
    ELSE IF sig = -1 /\ pos = 1 THEN "close_long"
    ELSE IF sig = 1 /\ pos = -1 THEN "close_short"
    ELSE "maintain"

TradeRule(sig, pos) ==
    IF sig = 1 /\ pos = 0 THEN "enter_long"
    ELSE IF sig = -1 /\ pos = 0 THEN "enter_short"
    ELSE IF sig = -1 /\ pos = 1 THEN "close_long"
    ELSE IF sig = 1 /\ pos = -1 THEN "close_short"
    ELSE "maintain"

BarRule(k) == TradeRule(BarSignal(k), CurrentPosition(k))

TradeValueAllCash(cash) == cash

TradeValue(cash) == RMin(cash, RMul(cash, position_size))

LongEntryUndebited(row, cash, trade_value, price) ==
    [row EXCEPT !.cash = cash, !.position = RDiv(trade_value, price)]

LongEntry(row, cash, trade_value, price) ==
    IF RLt(RSub(cash, trade_value), Zero)
    THEN [row EXCEPT !.cash = Zero, !.position = RDiv(Zero, price)]
    ELSE [row EXCEPT !.cash = RSub(cash, trade_value),
                     !.position = RDiv(trade_value, price)]

EnterLongRow(row, cash, price) == LongEntry(row, cash, TradeValue(cash), price)

ShortEntryCredited(row, cash, trade_value, price) ==
    [row EXCEPT !.cash = RAdd(cash, trade_value),
                !.position = RNeg(RDiv(trade_value, price)),
                !.entry_price = price]

ShortEntry(row, cash, trade_value, price) ==
    IF RLt(cash, Zero)
    THEN [row EXCEPT !.cash = Zero, !.position = RNeg(RDiv(Zero, price)),
                     !.entry_price = price]
    ELSE [row EXCEPT !.cash = cash, !.position = RNeg(RDiv(trade_value, price)),
                     !.entry_price = price]

EnterShortRow(row, cash, price) == ShortEntry(row, cash, TradeValue(cash), price)

\* shares closed: those of the previous row (of this row on the first bar)
SharesHeld(k) == IF k > 1 THEN portfolio[k-1].position ELSE portfolio[k].position

CloseLongRowUncredited(row, cash, shares, price) ==
    [row EXCEPT !.position = Zero, !.cash = cash]

CloseLongRow(row, cash, shares, price) ==
    [row EXCEPT !.position = Zero, !.cash = RAdd(cash, RMul(shares, price))]

CloseShortRowDebit(row, cash, shares, price) ==
    [row EXCEPT !.position = Zero,
                !.cash = RSub(cash, RMul(RAbs(shares), price))]

CloseShortRow(row, cash, shares, price) ==
    [row EXCEPT !.position = Zero,
                !.cash = RAdd(cash, RMul(RAbs(shares), price))]

MaintainRowFlat(row, k) ==
    IF k > 1
    THEN [row EXCEPT !.position = Zero,
                     !.cash = portfolio[k-1].cash,
                     !.holdings = portfolio[k-1].holdings,
                     !.entry_price = portfolio[k-1].entry_price]
    ELSE [row EXCEPT !.position = Zero, !.cash = initial_capital,
                     !.holdings = Zero, !.entry_price = Zero]

MaintainRow(row, k) ==
    IF k > 1
    THEN [row EXCEPT !.position = portfolio[k-1].position,
                     !.cash = portfolio[k-1].cash,
                     !.holdings = portfolio[k-1].holdings,
                     !.entry_price = portfolio[k-1].entry_price]
    ELSE [row EXCEPT !.position = Zero, !.cash = initial_capital,
                     !.holdings = Zero, !.entry_price = Zero]

\* the row of bar k with the overridden signal and the cash carried into the bar
StartRow(k) == [portfolio[k] EXCEPT !.signal = BarSignal(k), !.cash = CarriedCash(k)]

ApplyRule(rule, row, k, price) ==
    CASE rule = "enter_long"  -> EnterLongRow(row, row.cash, price)
      [] rule = "enter_short" -> EnterShortRow(row, row.cash, price)
      [] rule = "close_long"  -> CloseLongRow(row, row.cash, SharesHeld(k), price)
      [] rule = "close_short" -> CloseShortRow(row, row.cash, SharesHeld(k), price)
      [] OTHER                -> MaintainRow(row, k)

\* the row of bar k after the stop-loss override and the trade rule
TradedRow(k) == ApplyRule(BarRule(k), StartRow(k), k, data[k].Close)

\* the locals position, entry_price, entry_time after the trade rule
LocalPosition(rule, pos) ==
    CASE rule = "enter_long"  -> 1
      [] rule = "enter_short" -> -1
      [] rule \in {"close_long", "close_short"} -> 0
      [] OTHER -> pos

PositionAfter(k) == LocalPosition(BarRule(k), CurrentPosition(k))

EntersAt(k) == BarRule(k) \in {"enter_long", "enter_short"}

EntryPriceAfterFirstEntry(k) ==
    IF EntersAt(k) /\ entry_price = Zero THEN data[k].Close ELSE entry_price

EntryPriceAfter(k) == IF EntersAt(k) THEN data[k].Close ELSE entry_price

EntryTimeAfter(k) == IF EntersAt(k) THEN k ELSE entry_time

ShortEntryPrice(row_entry, local_entry) ==
    IF RGt(row_entry, Zero) THEN row_entry ELSE local_entry

HoldingsValueNotional(shares, pos, row_entry, local_entry, price) ==
    RMul(shares, price)

HoldingsValue(shares, pos, row_entry, local_entry, price) ==
    IF RGt(shares, Zero) THEN RMul(shares, price)
    ELSE IF RLt(shares, Zero)
         THEN IF pos = -1
              THEN RMul(RSub(ShortEntryPrice(row_entry, local_entry), price),
                        RAbs(shares))
              ELSE Zero
         ELSE Zero

WithHoldings(row, pos, local_entry, price) ==
    [row EXCEPT !.holdings =
        HoldingsValue(row.position, pos, row.entry_price, local_entry, price)]

TotalOfCashOnly(row) == row.cash

TotalOf(row) == RAdd(row.cash, row.holdings)

WithTotal(row) == [row EXCEPT !.total_value = TotalOf(row)]

\* the row with holdings and total_value computed
ValuedRow(k) ==
    WithTotal(WithHoldings(TradedRow(k), PositionAfter(k), EntryPriceAfter(k),
                           data[k].Close))

DropPct(value, prev_value) == RDiv(RSub(value, prev_value), prev_value)

\* the 50% circuit breaker
DropBreaker(k, value) ==
    /\ k > 1
    /\ RGt(portfolio[k-1].total_value, Zero)
    /\ RLt(DropPct(value, portfolio[k-1].total_value), RNeg(Half))

LiquidatesAtOrBelowOne(value) == RLe(value, One)

\* forced liquidation
Liquidates(value) == RLt(value, One)

FillFrom(pf, k, src) ==
    [j \in 1..Len(pf) |->
        IF j > k
        THEN [pf[j] EXCEPT !.position = pf[src].position, !.cash = pf[src].cash,
                           !.holdings = pf[src].holdings,
                           !.total_value = pf[src].total_value,
                           !.daily_pnl = Zero,
                           !.entry_price = pf[src].entry_price]
        ELSE pf[j]]

FillHaltingBar(pf, k) == FillFrom(pf, k, k)

\* fill the remaining rows with the last valid values
FillLastValid(pf, k) == FillFrom(pf, k, k - 1)

FillZeros(pf, k) ==
    [j \in 1..Len(pf) |->
        IF j >= k
        THEN [pf[j] EXCEPT !.position = Zero, !.cash = Zero, !.holdings = Zero,
                           !.total_value = Zero, !.daily_pnl = Zero,
                           !.entry_price = Zero]
        ELSE pf[j]]

DailyPnl(pf, k) ==
    IF k > 1
    THEN [pf EXCEPT ![k].daily_pnl = RSub(pf[k].total_value, pf[k-1].total_value)]
    ELSE pf

\* why the loop is left at bar k: "drop", "liquidation", "end" or "no"
ExitFor(k, value) ==
    IF DropBreaker(k, value) THEN "drop"
    ELSE IF Liquidates(value) THEN "liquidation"
    ELSE IF k = Len(data) THEN "end"
    ELSE "no"

LoopExit(k) == ExitFor(k, ValuedRow(k).total_value)

Filled(pf, k, exit) ==
    CASE exit = "drop"        -> FillLastValid(pf, k)
      [] exit = "liquidation" -> FillZeros(pf, k)
      [] OTHER                -> DailyPnl(pf, k)

PortfolioAfter(k) ==
    Filled([portfolio EXCEPT ![k] = ValuedRow(k)], k, LoopExit(k))

Iteration(k) ==
    /\ portfolio' = PortfolioAfter(k)
    /\ i' = k
    /\ position' = PositionAfter(k)
    /\ entry_price' = EntryPriceAfter(k)
    /\ entry_time' = EntryTimeAfter(k)
    /\ daily_start_value' = NextDailyStartValue(k)
    /\ total_value' = ValuedRow(k).total_value
    /\ pc' = IF LoopExit(k) = "no" THEN "loop" ELSE "metrics"
    /\ UNCHANGED <<data, signals, initial_capital, position_size, stop_loss,
                   reinvest_profits, results, earlier, strategies, comparison,
                   call>>

InLoop == pc = "loop" /\ i < Len(data)

EnterLong == InLoop /\ BarRule(i + 1) = "enter_long" /\ Iteration(i + 1)

EnterShort == InLoop /\ BarRule(i + 1) = "enter_short" /\ Iteration(i + 1)

CloseLong == InLoop /\ BarRule(i + 1) = "close_long" /\ Iteration(i + 1)

CloseShort == InLoop /\ BarRule(i + 1) = "close_short" /\ Iteration(i + 1)

Maintain == InLoop /\ BarRule(i + 1) = "maintain" /\ Iteration(i + 1)

-----------------------------------------------------------------------------
(* The metrics of the returned dict *)

Rows == 1..Len(portfolio)

SignalBars == { k \in Rows : portfolio[k].signal # 0 }

NumTradesOfStrategy == Cardinality({ k \in Rows : signals[k] # 0 })

NumTrades == Cardinality(SignalBars)

RECURSIVE RSum(_, _)
RSum(f, S) ==
    IF S = {} THEN Zero
    ELSE LET x == CHOOSE y \in S : TRUE IN RAdd(f[x], RSum(f, S \ {x}))

WinRateNonNegative ==
    IF NumTrades = 0 THEN Zero
    ELSE Norm(Cardinality({ k \in SignalBars : RGe(portfolio[k].daily_pnl, Zero) }),
              NumTrades)

WinRate ==
    IF NumTrades = 0 THEN Zero
    ELSE Norm(Cardinality({ k \in SignalBars : RGt(portfolio[k].daily_pnl, Zero) }),
              NumTrades)

\* the ratio taken over every bar instead of the signal bars
ProfitFactorAllBars ==
    LET pnl          == [k \in Rows |-> portfolio[k].daily_pnl]
        gross_profit == RSum(pnl, { k \in Rows : RGt(pnl[k], Zero) })
        gross_loss   == RAbs(RSum(pnl, { k \in Rows : RLt(pnl[k], Zero) }))
    IN  IF NumTrades = 0 THEN Zero
        ELSE IF gross_loss = Zero
             THEN IF RGt(gross_profit, Zero) THEN Inf ELSE Zero
             ELSE RDiv(gross_profit, gross_loss)

\* a rational, or Inf
ProfitFactor ==
    LET pnl          == [k \in Rows |-> portfolio[k].daily_pnl]
        gross_profit == RSum(pnl, { k \in SignalBars : RGt(pnl[k], Zero) })
        gross_loss   == RAbs(RSum(pnl, { k \in SignalBars : RLt(pnl[k], Zero) }))
    IN  IF NumTrades = 0 THEN Zero
        ELSE IF gross_loss = Zero
             THEN IF RGt(gross_profit, Zero) THEN Inf ELSE Zero
             ELSE RDiv(gross_profit, gross_loss)

TotalReturn ==
    RDiv(RSub(portfolio[Len(portfolio)].total_value, initial_capital),
         initial_capital)

\* portfolio['total_value']
Equity == [k \in Rows |-> portfolio[k].total_value]

\* float division of finite floats, with numpy's results for a zero divisor
FloatDiv(a, b) ==
    IF b # Zero THEN RDiv(a, b)
    ELSE IF a = Zero THEN NaN
    ELSE IF RGt(a, Zero) THEN Inf ELSE NegInf

RMax(a, b) == IF RGe(a, b) THEN a ELSE b

\* equity_curve.expanding().max() at row k
RECURSIVE Peak(_, _)
Peak(eq, k) == IF k = 1 THEN eq[1] ELSE RMax(Peak(eq, k - 1), eq[k])

Drawdown(eq, k) == FloatDiv(RSub(eq[k], Peak(eq, k)), Peak(eq, k))

\* the least of the rationals x[k], k in S (S not empty)
RECURSIVE RLeast(_, _)
RLeast(x, S) ==
    LET k == CHOOSE j \in S : TRUE
    IN  IF S = {k} THEN x[k] ELSE RMin(x[k], RLeast(x, S \ {k}))

\* Series.min() of a float series: NaN entries are skipped, NaN if none is left
SeriesMin(x) ==
    LET present == { k \in DOMAIN x : x[k] # NaN }
    IN  IF present = {} THEN NaN
        ELSE IF \E k \in present : x[k] = NegInf THEN NegInf
        ELSE IF \A k \in present : x[k] = Inf THEN Inf
        ELSE RLeast(x, { k \in present : x[k] # Inf })

MaxDrawdown == SeriesMin([k \in Rows |-> Drawdown(Equity, k)])

\* total_value.pct_change(): one entry per bar after the first
PctChange(eq) ==
    [k \in 1..(Len(eq) - 1) |-> FloatDiv(RSub(eq[k + 1], eq[k]), eq[k])]

NotNaN(x) == x # NaN

\* returns = portfolio['total_value'].pct_change().dropna()
Returns == SelectSeq(PctChange(Equity), NotNaN)

\* returns.std(): the sample standard deviation, NaN for fewer than two
\* samples and for a series holding an infinity, 0 for equal samples
Std(r) ==
    IF Len(r) < 2 \/ \E k \in 1..Len(r) : ~IsFinite(r[k]) THEN NaN
    ELSE IF \A k \in 1..Len(r) : r[k] = r[1] THEN Zero
    ELSE Unevaluated(r)

\* mean / std * sqrt(252 * 24 * 60), 0 when std == 0 (NaN == 0 is false)
SharpeRatio ==
    IF Std(Returns) = Zero THEN Zero
    ELSE IF Std(Returns) = NaN THEN NaN
    ELSE Unevaluated(Returns)

\* returns.std() * sqrt(252 * 24 * 60)
Volatility == Std(Returns)

DaysPerYear == 365

\* (index[-1] - index[0]).days, the timestamps being in hours
TotalDays == (data[Len(data)].time - data[1].time) \div 24

\* the least base whose power base ** (365 / total_days) exceeds the largest
\* float, 2 ** (1024 * total_days / 365), to three decimals; runs of more
\* than two elapsed days stay below it
PowerLimit(total_days) ==
    CASE total_days = 1 -> <<6991, 1000>>
      [] total_days = 2 -> <<48873, 1000>>
      [] OTHER          -> Inf

\* (1 + total_return) ** (365 / total_days) - 1 for a float total_return: a
\* negative base with a fractional exponent gives NaN, a power beyond the
\* largest float gives +infinity
Annualize(total_return, total_days) ==
    IF ~IsFinite(total_return) THEN total_return
    ELSE IF total_return = Zero THEN Zero
    ELSE IF RLt(RAdd(One, total_return), Zero) /\ DaysPerYear % total_days # 0
         THEN NaN
    ELSE IF /\ IsFinite(PowerLimit(total_days))
            /\ RGe(RAdd(One, total_return), PowerLimit(total_days))
         THEN Inf
    ELSE Unevaluated(<<RAdd(One, total_return), total_days>>)

AnnualizedReturn ==
    IF TotalDays = 0 THEN Zero
    ELSE Annualize(FloatDiv(RSub(Equity[Len(Equity)], Equity[1]), Equity[1]),
                   TotalDays)

CalculateMetrics ==
    /\ pc = "metrics"
    /\ results' = [returned |-> TRUE, portfolio |-> portfolio,
                   total_return |-> TotalReturn,
                   annualized_return |-> AnnualizedReturn,
                   sharpe_ratio |-> SharpeRatio,
                   max_drawdown |-> MaxDrawdown,
                   volatility |-> Volatility,
                   num_trades |-> NumTrades,
                   win_rate |-> WinRate, profit_factor |-> ProfitFactor]
    /\ pc' = "done"
    /\ UNCHANGED <<data, signals, initial_capital, position_size, stop_loss,
                   reinvest_profits, portfolio, i, position, entry_price,
                   entry_time, daily_start_value, total_value, earlier,
                   strategies, comparison, call>>

\* a second call of run() keeps a local that the first call left behind
RunAgainStale ==
    /\ pc = "done"
    /\ ~earlier.returned
    /\ earlier' = results
    /\ portfolio' = [k \in 1..Len(data) |->
                         InitialRow(data[k], signals[k], initial_capital)]
    /\ i' = 0
    /\ position' = 0
    /\ entry_price' = Zero
    /\ entry_time' = 0
    /\ total_value' = Zero
    /\ pc' = "loop"
    /\ results' = [returned |-> FALSE]
    /\ UNCHANGED <<data, signals, initial_capital, position_size, stop_loss,
                   reinvest_profits, daily_start_value, strategies, comparison,
                   call>>

\* run() is called again on the same Backtester with the same data and
\* strategy: the constructor's fields are as they were (run() assigns none of
\* them), generate_signals returns the same signals (no strategy writes a
\* field outside its constructor), and the portfolio and the locals are
\* created anew
RunAgain ==
    /\ pc = "done"
    /\ ~earlier.returned
    /\ earlier' = results
    /\ portfolio' = [k \in 1..Len(data) |->
                         InitialRow(data[k], signals[k], initial_capital)]
    /\ i' = 0
    /\ position' = 0
    /\ entry_price' = Zero
    /\ entry_time' = 0
    /\ daily_start_value' = initial_capital
    /\ total_value' = Zero
    /\ pc' = "loop"
    /\ results' = [returned |-> FALSE]
    /\ UNCHANGED <<data, signals, initial_capital, position_size, stop_loss,
                   reinvest_profits, strategies, comparison, call>>

Next ==
    \/ EnterLong
    \/ EnterShort
    \/ CloseLong
    \/ CloseShort
    \/ Maintain
    \/ CalculateMetrics

Spec == Init /\ [][Next]_vars

\* run() called twice in a row
NextRerun == Next \/ RunAgain

SpecRerun == Init /\ [][NextRerun]_vars

-----------------------------------------------------------------------------
(* run_multiple_strategies: every strategy of the dict is run by self.run on
   the same Backtester, then the best one is chosen *)

MaxStrategies == 3

\* what the strategies of a comparison return from generate_signals: all
\* Hold, long swings, short swings (cut to the number of bars)
StrategySignals ==
    { <<0, 0, 0, 0, 0, 0>>,
      <<1, 0, -1, 1, 0, -1>>,
      <<-1, 0, 1, -1, 0, 1>> }

SignalsFor(n) == { SubSeq(sig, 1, n) : sig \in StrategySignals }

\* the price series of a comparison: those whose returns have denominators
\* short enough for the exact ranking of the sharpe ratios
ComparisonPrices ==
    { ps \in PriceSeries :
        \A k \in 1..Len(ps) : 100 % ps[k] = 0 \/ ps[k] % 50 = 0 }

InitMultiple ==
    /\ \E n \in 1..MaxBars : \E ps \in ComparisonPrices : \E ts \in TimeSeries :
          /\ data = Bars(ps, ts, n)
          /\ \E m \in 2..MaxStrategies : strategies \in [1..m -> SignalsFor(n)]
    /\ signals = strategies[1]
    /\ initial_capital \in Capitals
    /\ position_size \in PositionSizes
    /\ stop_loss \in StopLosses
    /\ reinvest_profits = TRUE
    /\ portfolio = [k \in 1..Len(data) |->
                        InitialRow(data[k], signals[k], initial_capital)]
    /\ i = 0
    /\ position = 0
    /\ entry_price = Zero
    /\ entry_time = 0
    /\ daily_start_value = initial_capital
    /\ total_value = Zero
    /\ pc = "loop"
    /\ results = [returned |-> FALSE]
    /\ earlier = [returned |-> FALSE]
    /\ comparison = [results |-> <<>>, best_strategy |-> 0]
    /\ call = [method |-> "none"]

\* the next self.run(data, strategy) starts without creating daily_start_value anew
BeginRunStale(sig) ==
    /\ signals' = sig
    /\ portfolio' = [k \in 1..Len(data) |->
                         InitialRow(data[k], sig[k], initial_capital)]
    /\ i' = 0
    /\ position' = 0
    /\ entry_price' = Zero
    /\ entry_time' = 0
    /\ total_value' = Zero
    /\ pc' = "loop"
    /\ results' = [returned |-> FALSE]
    /\ UNCHANGED daily_start_value

\* self.run(data, strategy) up to the start of its loop
BeginRun(sig) ==
    /\ signals' = sig
    /\ portfolio' = [k \in 1..Len(data) |->
                         InitialRow(data[k], sig[k], initial_capital)]
    /\ i' = 0
    /\ position' = 0
    /\ entry_price' = Zero
    /\ entry_time' = 0
    /\ daily_start_value' = initial_capital
    /\ total_value' = Zero
    /\ pc' = "loop"
    /\ results' = [returned |-> FALSE]

\* results[strategy_name] = strategy_results, and the next strategy of the
\* dict is run; after the last one the comparison follows
StoreResults ==
    /\ pc = "done"
    /\ Len(comparison.results) < Len(strategies)
    /\ comparison' = [comparison EXCEPT !.results = Append(@, results)]
    /\ IF Len(comparison.results) + 1 < Len(strategies)
       THEN BeginRun(strategies[Len(comparison.results) + 2])
       ELSE /\ pc' = "compare"
            /\ UNCHANGED <<signals, portfolio, i, position, entry_price,
                           entry_time, daily_start_value, total_value, results>>
    /\ UNCHANGED <<data, initial_capital, position_size, stop_loss,
                   reinvest_profits, earlier, strategies, call>>

\* float comparison: false when either side is NaN
FloatEq(a, b) == a # NaN /\ b # NaN /\ a = b

FloatGt(a, b) == a # NaN /\ b # NaN /\ RGt(a, b)

RECURSIVE SeqSum(_, _)
SeqSum(r, n) == IF n = 0 THEN Zero ELSE RAdd(SeqSum(r, n - 1), r[n])

RECURSIVE SeqSumSquares(_, _)
SeqSumSquares(r, n) ==
    IF n = 0 THEN Zero ELSE RAdd(SeqSumSquares(r, n - 1), RMul(r[n], r[n]))

\* mean * |mean| / variance of the samples r (not all equal, n >= 2): it
\* orders the values mean / std * sqrt(252 * 24 * 60) as they are ordered
SignedSquare(total, squares, n) ==
    RDiv(RMul(RMul(total, RAbs(total)), Rat(n - 1)),
         RMul(Rat(n), RSub(RMul(Rat(n), squares), RMul(total, total))))

\* a rational that orders sharpe ratios as floats: NaN stays NaN
SharpeOrder(sharpe) ==
    IF Len(sharpe) = 2 THEN sharpe
    ELSE SignedSquare(SeqSum(SubSeq(sharpe, 3, Len(sharpe)), Len(sharpe) - 2),
                      SeqSumSquares(SubSeq(sharpe, 3, Len(sharpe)), Len(sharpe) - 2),
                      Len(sharpe) - 2)

\* the key (sharpe_ratio, total_return) of a result
RankKey(r) == <<SharpeOrder(r.sharpe_ratio), r.total_return>>

\* tuple comparison x > y of two keys: the first components that are not
\* equal decide
KeyGreater(x, y) ==
    IF FloatEq(x[1], y[1]) THEN FloatGt(x[2], y[2]) ELSE FloatGt(x[1], y[1])

\* max(results.keys(), key=...): the first key that no later key exceeds
RECURSIVE MaxFrom(_, _, _)
MaxFrom(keys, k, best) ==
    IF k > Len(keys) THEN best
    ELSE MaxFrom(keys, k + 1, IF KeyGreater(keys[k], keys[best]) THEN k ELSE best)

BestStrategy(res) == MaxFrom([k \in 1..Len(res) |-> RankKey(res[k])], 2, 1)

Compare ==
    /\ pc = "compare"
    /\ comparison' = [comparison EXCEPT
                         !.best_strategy = BestStrategy(comparison.results)]
    /\ pc' = "compared"
    /\ UNCHANGED <<data, signals, initial_capital, position_size, stop_loss,
                   reinvest_profits, portfolio, i, position, entry_price,
                   entry_time, daily_start_value, total_value, results,
                   earlier, strategies, call>>

NextMultiple == Next \/ StoreResults \/ Compare

SpecMultiple == InitMultiple /\ [][NextMultiple]_vars

-----------------------------------------------------------------------------
(* The strategies: each method is executed on a constructed Backtester that
   is not running *)

NoSimulation ==
    /\ data = <<>>
    /\ signals = <<>>
    /\ initial_capital = Rat(100)
    /\ position_size = <<4, 5>>
    /\ stop_loss = <<1, 50>>
    /\ reinvest_profits = TRUE
    /\ portfolio = <<>>
    /\ i = 0
    /\ position = 0
    /\ entry_price = Zero
    /\ entry_time = 0
    /\ daily_start_value = initial_capital
    /\ total_value = Zero
    /\ pc = "strategy"
    /\ results = [returned |-> FALSE]
    /\ earlier = [returned |-> FALSE]
    /\ strategies = <<>>
    /\ comparison = [results |-> <<>>, best_strategy |-> 0]

-----------------------------------------------------------------------------
(* MovingAverageStrategy._apply_min_holding_period(signal, min_periods) *)

MaxSignalBars == 6

MaxMinPeriods == 3

\* call.i is the number of bars the loop has processed
InitHolding ==
    /\ NoSimulation
    /\ \E n \in 1..MaxSignalBars : \E sig \in [1..n -> SignalValues] :
       \E mp \in 0..MaxMinPeriods :
          call = [method |-> "_apply_min_holding_period", signal |-> sig,
                  min_periods |-> mp, filtered_signal |-> sig, position |-> 0,
                  position_start |-> 0, i |-> 0]

InHoldingLoop ==
    /\ call.method = "_apply_min_holding_period"
    /\ call.i < Len(call.signal)

\* the bar the iteration works on, and its signal
HoldingBar == call.i + 1

HoldingSignal == call.signal[HoldingBar]

PeriodMetStrict(bar, start, min_periods) == bar - start > min_periods

\* i - position_start >= min_periods
PeriodMet(bar, start, min_periods) == bar - start >= min_periods

\* signal.iloc[i] == 0: nothing to do
HoldingNoSignal ==
    /\ InHoldingLoop
    /\ HoldingSignal = 0
    /\ call' = [call EXCEPT !.i = HoldingBar]
    /\ UNCHANGED simulator

\* no current position: enter
HoldingEnter ==
    /\ InHoldingLoop
    /\ HoldingSignal # 0
    /\ call.position = 0
    /\ call' = [call EXCEPT !.position = HoldingSignal,
                            !.position_start = HoldingBar, !.i = HoldingBar]
    /\ UNCHANGED simulator

\* opposite signal, minimum holding period met: reverse
HoldingReverse ==
    /\ InHoldingLoop
    /\ HoldingSignal # 0
    /\ call.position # 0
    /\ call.position # HoldingSignal
    /\ PeriodMet(HoldingBar, call.position_start, call.min_periods)
    /\ call' = [call EXCEPT !.position = HoldingSignal,
                            !.position_start = HoldingBar, !.i = HoldingBar]
    /\ UNCHANGED simulator

\* opposite signal too early: ignored
HoldingIgnoreOpposite ==
    /\ InHoldingLoop
    /\ HoldingSignal # 0
    /\ call.position # 0
    /\ call.position # HoldingSignal
    /\ ~PeriodMet(HoldingBar, call.position_start, call.min_periods)
    /\ call' = [call EXCEPT !.filtered_signal[HoldingBar] = 0, !.i = HoldingBar]
    /\ UNCHANGED simulator

HoldingPassSame ==
    /\ InHoldingLoop
    /\ HoldingSignal # 0
    /\ call.position = HoldingSignal
    /\ call' = [call EXCEPT !.i = HoldingBar]
    /\ UNCHANGED simulator

\* same signal while in position: ignored
HoldingIgnoreSame ==
    /\ InHoldingLoop
    /\ HoldingSignal # 0
    /\ call.position = HoldingSignal
    /\ call' = [call EXCEPT !.filtered_signal[HoldingBar] = 0, !.i = HoldingBar]
    /\ UNCHANGED simulator

NextHolding ==
    \/ HoldingNoSignal
    \/ HoldingEnter
    \/ HoldingReverse
    \/ HoldingIgnoreOpposite
    \/ HoldingIgnoreSame

SpecHolding == InitHolding /\ [][NextHolding]_vars

-----------------------------------------------------------------------------
(* RSIBollingerStrategy.generate_signals: the signals applied from the
   conditions, and the exit loop *)

MaxExitBars == 3

\* signal[buy_condition] = 1; signal[sell_condition] = -1
AppliedSignal(buy, sell) == IF sell THEN -1 ELSE IF buy THEN 1 ELSE 0

InitExit ==
    /\ NoSimulation
    /\ \E n \in 1..MaxExitBars :
       \E buy \in [1..n -> BOOLEAN] : \E sell \in [1..n -> BOOLEAN] :
       \E xl \in [1..n -> BOOLEAN] : \E xs \in [1..n -> BOOLEAN] :
          call = [method |-> "generate_signals", buy_condition |-> buy,
                  sell_condition |-> sell, exit_long |-> xl, exit_short |-> xs,
                  signal |-> [k \in 1..n |-> AppliedSignal(buy[k], sell[k])],
                  position |-> 0, i |-> 0]

InExitLoop == call.method = "generate_signals" /\ call.i < Len(call.signal)

ExitBar == call.i + 1

\* signal.iloc[i] == 1
ExitSeesBuy ==
    /\ InExitLoop
    /\ call.signal[ExitBar] = 1
    /\ call' = [call EXCEPT !.position = 1, !.i = ExitBar]
    /\ UNCHANGED simulator

\* signal.iloc[i] == -1
ExitSeesSell ==
    /\ InExitLoop
    /\ call.signal[ExitBar] = -1
    /\ call' = [call EXCEPT !.position = -1, !.i = ExitBar]
    /\ UNCHANGED simulator

\* the long exit that leaves the implied position long
ExitLongStaysLong ==
    /\ InExitLoop
    /\ call.signal[ExitBar] = 0
    /\ call.position = 1
    /\ call.exit_long[ExitBar]
    /\ call' = [call EXCEPT !.signal[ExitBar] = -1, !.i = ExitBar]
    /\ UNCHANGED simulator

\* position == 1 and exit_long.iloc[i]
ExitLong ==
    /\ InExitLoop
    /\ call.signal[ExitBar] = 0
    /\ call.position = 1
    /\ call.exit_long[ExitBar]
    /\ call' = [call EXCEPT !.signal[ExitBar] = -1, !.position = 0, !.i = ExitBar]
    /\ UNCHANGED simulator

\* position == -1 and exit_short.iloc[i]
ExitShort ==
    /\ InExitLoop
    /\ call.signal[ExitBar] = 0
    /\ call.position = -1
    /\ call.exit_short[ExitBar]
    /\ call' = [call EXCEPT !.signal[ExitBar] = 1, !.position = 0, !.i = ExitBar]
    /\ UNCHANGED simulator

\* no branch taken
ExitNothing ==
    /\ InExitLoop
    /\ call.signal[ExitBar] = 0
    /\ ~(call.position = 1 /\ call.exit_long[ExitBar])
    /\ ~(call.position = -1 /\ call.exit_short[ExitBar])
    /\ call' = [call EXCEPT !.i = ExitBar]
    /\ UNCHANGED simulator

NextExit ==
    \/ ExitSeesBuy
    \/ ExitSeesSell
    \/ ExitLong
    \/ ExitShort
    \/ ExitNothing

SpecExit == InitExit /\ [][NextExit]_vars

-----------------------------------------------------------------------------
(* Strategy._get_adaptive_parameters(data, base_params) as overridden by
   RSIBollingerStrategy, MovingAverageStrategy and MeanReversionStrategy.
   Window lengths and holding periods are integers, the other parameters
   floats held as exact fractions; on the windows below a product with 0.7,
   0.8, 1.2 or 1.3 truncates to the same integer in double precision as it
   does exactly *)

VolatilityLabels == {"high", "medium", "low"}

TrendLabels == {"trending", "moderate", "ranging"}

\* int(x) of a non-negative float
Truncated(x) == x[1] \div x[2]

IMax(a, b) == IF a >= b THEN a ELSE b

IMin(a, b) == IF a <= b THEN a ELSE b

\* int(window * factor)
Scaled(window, factor) == Truncated(RMul(Rat(window), factor))

RSIBollingerBase ==
    { [bb_std |-> Rat(2), rsi_oversold |-> Rat(lo), rsi_overbought |-> Rat(hi),
       volume_threshold |-> Rat(2)] : lo \in {25, 30}, hi \in {70, 75} }

\* base (short_window, long_window) pairs, each with short < long
BaseWindows == { <<10, 50>>, <<20, 50>>, <<30, 31>>, <<40, 45>> }

MovingAverageBase ==
    { [short_window |-> w[1], long_window |-> w[2],
       min_crossover_strength |-> <<1, 1000>>, min_holding_period |-> h] :
         w \in BaseWindows, h \in {0, 4} }

VolumeCompensatedBase ==
    { [short_window |-> w[1], long_window |-> w[2],
       min_crossover_strength |-> <<1, 1000>>] : w \in BaseWindows }

MeanReversionBase ==
    { [window |-> w, deviation_threshold |-> <<3, 200>>] : w \in {20, 30} }

BaseParams(variant) ==
    CASE variant = "rsi_bollinger" -> RSIBollingerBase
      [] variant = "moving_average" -> MovingAverageBase
      [] variant = "moving_average_volume_compensated" -> VolumeCompensatedBase
      [] variant = "mean_reversion" -> MeanReversionBase

Variants ==
    {"rsi_bollinger", "moving_average", "moving_average_volume_compensated",
     "mean_reversion"}

InitAdapt ==
    /\ NoSimulation
    /\ \E variant \in Variants : \E base \in BaseParams(variant) :
       \E enabled \in BOOLEAN :
       \E volatility \in VolatilityLabels : \E trend \in TrendLabels :
          call = [method |-> "_get_adaptive_parameters", variant |-> variant,
                  enable_regime_detection |-> enabled,
                  base_params |-> base, current_volatility |-> volatility,
                  current_trend |-> trend, adapted_params |-> base,
                  at |-> "entry"]

RSIBollingerVolatility(base, adapted, volatility) ==
    IF volatility = "high"
    THEN [adapted EXCEPT !.rsi_oversold = RSub(base.rsi_oversold, Rat(5)),
                         !.rsi_overbought = RAdd(base.rsi_overbought, Rat(5)),
                         !.bb_std = RMul(base.bb_std, <<6, 5>>),
                         !.volume_threshold =
                             RMul(base.volume_threshold, <<13, 10>>)]
    ELSE IF volatility = "low"
    THEN [adapted EXCEPT !.rsi_oversold = RAdd(base.rsi_oversold, Rat(5)),
                         !.rsi_overbought = RSub(base.rsi_overbought, Rat(5)),
                         !.bb_std = RMul(base.bb_std, <<4, 5>>),
                         !.volume_threshold =
                             RMul(base.volume_threshold, <<4, 5>>)]
    ELSE adapted

RSIBollingerTrend(base, adapted, trend) ==
    IF trend = "trending"
    THEN [adapted EXCEPT !.rsi_oversold = RSub(base.rsi_oversold, Rat(10)),
                         !.rsi_overbought = RAdd(base.rsi_overbought, Rat(10)),
                         !.bb_std = RMul(base.bb_std, <<3, 2>>)]
    ELSE adapted

MovingAverageVolatility(base, adapted, volatility) ==
    IF volatility = "high"
    THEN [adapted EXCEPT
            !.short_window = IMax(Scaled(base.short_window, <<7, 10>>), 10),
            !.long_window = IMax(Scaled(base.long_window, <<4, 5>>), 20),
            !.min_crossover_strength =
                RMul(base.min_crossover_strength, <<3, 2>>),
            !.min_holding_period = IMax(base.min_holding_period, 3)]
    ELSE IF volatility = "low"
    THEN [adapted EXCEPT
            !.short_window = IMin(Scaled(base.short_window, <<13, 10>>), 40),
            !.long_window = IMin(Scaled(base.long_window, <<6, 5>>), 80),
            !.min_crossover_strength =
                RMul(base.min_crossover_strength, <<7, 10>>),
            !.min_holding_period = base.min_holding_period]
    ELSE adapted

MovingAverageTrend(base, adapted, trend) ==
    IF trend = "trending"
    THEN [adapted EXCEPT
            !.short_window = IMin(Scaled(adapted.short_window, <<6, 5>>), 30),
            !.long_window = IMin(Scaled(adapted.long_window, <<13, 10>>), 100),
            !.min_holding_period = IMax(adapted.min_holding_period, 5)]
    ELSE IF trend = "ranging"
    THEN [adapted EXCEPT
            !.short_window = IMax(Scaled(adapted.short_window, <<4, 5>>), 10),
            !.long_window = IMax(Scaled(adapted.long_window, <<7, 10>>), 30),
            !.min_holding_period = base.min_holding_period]
    ELSE adapted

VolumeCompensatedVolatility(base, adapted, volatility) ==
    IF volatility = "high"
    THEN [adapted EXCEPT
            !.short_window = IMax(Scaled(base.short_window, <<7, 10>>), 10),
            !.long_window = IMax(Scaled(base.long_window, <<4, 5>>), 20),
            !.min_crossover_strength =
                RMul(base.min_crossover_strength, <<3, 2>>)]
    ELSE IF volatility = "low"
    THEN [adapted EXCEPT
            !.short_window = IMin(Scaled(base.short_window, <<13, 10>>), 40),
            !.long_window = IMin(Scaled(base.long_window, <<6, 5>>), 80),
            !.min_crossover_strength =
                RMul(base.min_crossover_strength, <<7, 10>>)]
    ELSE adapted

VolumeCompensatedTrend(base, adapted, trend) ==
    IF trend = "trending"
    THEN [adapted EXCEPT
            !.short_window = IMin(Scaled(adapted.short_window, <<6, 5>>), 30),
            !.long_window = IMin(Scaled(adapted.long_window, <<13, 10>>), 100)]
    ELSE IF trend = "ranging"
    THEN [adapted EXCEPT
            !.short_window = IMax(Scaled(adapted.short_window, <<4, 5>>), 10),
            !.long_window = IMax(Scaled(adapted.long_window, <<7, 10>>), 30)]
    ELSE adapted

MeanReversionVolatility(base, adapted, volatility) ==
    IF volatility = "high"
    THEN [adapted EXCEPT
            !.window = IMax(Scaled(base.window, <<7, 10>>), 10),
            !.deviation_threshold = RMul(base.deviation_threshold, <<3, 2>>)]
    ELSE IF volatility = "low"
    THEN [adapted EXCEPT
            !.window = IMin(Scaled(base.window, <<13, 10>>), 40),
            !.deviation_threshold = RMul(base.deviation_threshold, <<7, 10>>)]
    ELSE adapted

MeanReversionTrend(base, adapted, trend) ==
    IF trend = "trending"
    THEN [adapted EXCEPT
            !.window = IMin(Scaled(adapted.window, <<6, 5>>), 30),
            !.deviation_threshold =
                RMul(adapted.deviation_threshold, <<13, 10>>)]
    ELSE adapted

Adapting == call.method = "_get_adaptive_parameters"

\* if not self.enable_regime_detection: return base_params
AdaptDisabled ==
    /\ Adapting
    /\ call.at = "entry"
    /\ ~call.enable_regime_detection
    /\ call' = [call EXCEPT !.at = "returned"]
    /\ UNCHANGED simulator

\* adapted_params = base_params.copy(), then the volatility-based adaptations
AdaptVolatility ==
    /\ Adapting
    /\ call.at = "entry"
    /\ call.enable_regime_detection
    /\ call' = [call EXCEPT
          !.adapted_params =
              CASE call.variant = "rsi_bollinger" ->
                     RSIBollingerVolatility(call.base_params, call.base_params,
                                            call.current_volatility)
                [] call.variant = "moving_average" ->
                     MovingAverageVolatility(call.base_params, call.base_params,
                                             call.current_volatility)
                [] call.variant = "moving_average_volume_compensated" ->
                     VolumeCompensatedVolatility(call.base_params,
                                                 call.base_params,
                                                 call.current_volatility)
                [] call.variant = "mean_reversion" ->
                     MeanReversionVolatility(call.base_params, call.base_params,
                                             call.current_volatility),
          !.at = "trend"]
    /\ UNCHANGED simulator

\* the trend-based adaptations, then return adapted_params
AdaptTrend ==
    /\ Adapting
    /\ call.at = "trend"
    /\ call' = [call EXCEPT
          !.adapted_params =
              CASE call.variant = "rsi_bollinger" ->
                     RSIBollingerTrend(call.base_params, call.adapted_params,
                                       call.current_trend)
                [] call.variant = "moving_average" ->
                     MovingAverageTrend(call.base_params, call.adapted_params,
                                        call.current_trend)
                [] call.variant = "moving_average_volume_compensated" ->
                     VolumeCompensatedTrend(call.base_params,
                                            call.adapted_params,
                                            call.current_trend)
                [] call.variant = "mean_reversion" ->
                     MeanReversionTrend(call.base_params, call.adapted_params,
                                        call.current_trend),
          !.at = "returned"]
    /\ UNCHANGED simulator

NextAdapt ==
    \/ AdaptDisabled
    \/ AdaptVolatility
    \/ AdaptTrend

SpecAdapt == InitAdapt /\ [][NextAdapt]_vars

-----------------------------------------------------------------------------
(* Strategy._classify_trend_regime(adx), inherited by the mean-reversion and
   volume-compensated strategies and overridden by MovingAverageStrategy
   and RSIBollingerStrategy *)

MaxAdxBars == 2

AdxValues ==
    { NaN, Zero, <<1999, 100>>, Rat(20), <<45, 2>>, Rat(25), <<2501, 100>>,
      Rat(100) }

TrendClassifiers == {"base", "moving_average", "rsi_bollinger"}

InitTrend ==
    /\ NoSimulation
    /\ \E classifier \in TrendClassifiers : \E n \in 1..MaxAdxBars :
       \E adx \in [1..n -> AdxValues] :
          call = [method |-> "_classify_trend_regime",
                  classifier |-> classifier, adx |-> adx, regime |-> <<>>,
                  at |-> "entry"]

\* regime = pd.Series(<label>, index=adx.index)
TrendDefault(classifier) ==
    IF classifier = "rsi_bollinger" THEN "ranging" ELSE "moderate"

\* regime[adx > 25] = 'trending'
MarkTrending(adx, regime) ==
    [k \in DOMAIN regime |->
        IF FloatGt(adx[k], Rat(25)) THEN "trending" ELSE regime[k]]

\* regime[adx < 20] = 'ranging'
MarkRanging(adx, regime) ==
    [k \in DOMAIN regime |->
        IF FloatGt(Rat(20), adx[k]) THEN "ranging" ELSE regime[k]]

Classifying == call.method = "_classify_trend_regime"

ClassifyDefault ==
    /\ Classifying
    /\ call.at = "entry"
    /\ call' = [call EXCEPT
          !.regime = [k \in DOMAIN call.adx |-> TrendDefault(call.classifier)],
          !.at = "trending"]
    /\ UNCHANGED simulator

\* the RSI + Bollinger override returns after this assignment
ClassifyTrending ==
    /\ Classifying
    /\ call.at = "trending"
    /\ call' = [call EXCEPT
          !.regime = MarkTrending(call.adx, call.regime),
          !.at = IF call.classifier = "rsi_bollinger"
                 THEN "returned" ELSE "ranging"]
    /\ UNCHANGED simulator

ClassifyRanging ==
    /\ Classifying
    /\ call.at = "ranging"
    /\ call' = [call EXCEPT
          !.regime = MarkRanging(call.adx, call.regime),
          !.at = "returned"]
    /\ UNCHANGED simulator

NextTrend ==
    \/ ClassifyDefault
    \/ ClassifyTrending
    \/ ClassifyRanging

SpecTrend == InitTrend /\ [][NextTrend]_vars

-----------------------------------------------------------------------------
(* MeanReversionStrategy.generate_signals(data), from the adapted parameters
   to the returned signal *)

MaxCloseBars == 3

ClosePrices == {100, 200, 300}

Windows == {1, 2, 3}

DeviationThresholds == { <<1, 4>>, Half }

InitReversion ==
    /\ NoSimulation
    /\ \E n \in 1..MaxCloseBars : \E close \in [1..n -> ClosePrices] :
       \E window \in Windows : \E threshold \in DeviationThresholds :
          call = [method |-> "mean_reversion.generate_signals",
                  Close |-> [k \in 1..n |-> Rat(close[k])],
                  window |-> window, deviation_threshold |-> threshold,
                  deviation |-> <<>>, signal |-> <<>>, at |-> "entry"]

\* the sum of x[from..to]
RECURSIVE WindowSum(_, _, _)
WindowSum(x, from, to) ==
    IF to < from THEN Zero ELSE RAdd(WindowSum(x, from, to - 1), x[to])

\* x.rolling(window=window, min_periods=1).mean() at row k
RollingMean(x, window, k) ==
    RDiv(WindowSum(x, IMax(1, k - window + 1), k),
         Rat(k - IMax(1, k - window + 1) + 1))

\* (data['Close'] - ma) / ma at row k
Deviation(close, window, k) ==
    FloatDiv(RSub(close[k], RollingMean(close, window, k)),
             RollingMean(close, window, k))

\* deviation < -adapted_params['deviation_threshold']
BuyCondition(deviation, threshold) == FloatGt(RNeg(threshold), deviation)

\* deviation > adapted_params['deviation_threshold']
SellCondition(deviation, threshold) == FloatGt(deviation, threshold)

Reverting == call.method = "mean_reversion.generate_signals"

\* ma, deviation and signal = pd.Series(0, index=data.index)
ReversionDeviation ==
    /\ Reverting
    /\ call.at = "entry"
    /\ call' = [call EXCEPT
          !.deviation = [k \in DOMAIN call.Close |->
                            Deviation(call.Close, call.window, k)],
          !.signal = [k \in DOMAIN call.Close |-> 0],
          !.at = "buy"]
    /\ UNCHANGED simulator

\* signal[buy_condition] = 1
ReversionBuy ==
    /\ Reverting
    /\ call.at = "buy"
    /\ call' = [call EXCEPT
          !.signal = [k \in DOMAIN call.signal |->
                         IF BuyCondition(call.deviation[k],
                                         call.deviation_threshold)
                         THEN 1 ELSE call.signal[k]],
          !.at = "sell"]
    /\ UNCHANGED simulator

\* signal[sell_condition] = -1; return signal
ReversionSell ==
    /\ Reverting
    /\ call.at = "sell"
    /\ call' = [call EXCEPT
          !.signal = [k \in DOMAIN call.signal |->
                         IF SellCondition(call.deviation[k],
                                          call.deviation_threshold)
                         THEN -1 ELSE call.signal[k]],
          !.at = "returned"]
    /\ UNCHANGED simulator

NextReversion ==
    \/ ReversionDeviation
    \/ ReversionBuy
    \/ ReversionSell

SpecReversion == InitReversion /\ [][NextReversion]_vars

-----------------------------------------------------------------------------
(* Strategy._calculate_adx(data, period), the same code in the overrides of
   MovingAverageStrategy and RSIBollingerStrategy, followed by
   _classify_trend_regime as generate_signals calls them. Prices are
   integers, so every sum is exact *)

MaxAdxInputBars == 3

\* bars <<High, Low, Close>> with Low <= Close <= High
PriceBars ==
    { <<10, 10, 10>>, <<12, 10, 11>>, <<12, 8, 10>>, <<14, 12, 13>>,
      <<10, 8, 9>> }

AdxPeriods == {2, 14}

InitAdx ==
    /\ NoSimulation
    /\ \E n \in 1..MaxAdxInputBars : \E bars \in [1..n -> PriceBars] :
       \E period \in AdxPeriods : \E classifier \in TrendClassifiers :
          call = [method |-> "_calculate_adx", classifier |-> classifier,
                  High |-> [k \in 1..n |-> Rat(bars[k][1])],
                  Low |-> [k \in 1..n |-> Rat(bars[k][2])],
                  Close |-> [k \in 1..n |-> Rat(bars[k][3])],
                  period |-> period,
                  plus_dm |-> <<>>, minus_dm |-> <<>>, true_range |-> <<>>,
                  plus_di |-> <<>>, minus_di |-> <<>>, dx |-> <<>>,
                  adx |-> <<>>, regime |-> <<>>, at |-> "entry"]

\* x - x.shift(1) at row k
Rise(x, k) == IF k = 1 THEN NaN ELSE RSub(x[k], x[k-1])

\* x.shift(1) - x at row k
Fall(x, k) == IF k = 1 THEN NaN ELSE RSub(x[k-1], x[k])

\* np.where((a > b) & (a > 0), a, 0)
DirectionalMovement(a, b) ==
    IF FloatGt(a, b) /\ FloatGt(a, Zero) THEN a ELSE Zero

\* pd.concat([tr1, tr2, tr3], axis=1).max(axis=1) at row k, NaN skipped
TrueRange(high, low, close, k) ==
    IF k = 1 THEN RSub(high[1], low[1])
    ELSE RMax(RSub(high[k], low[k]),
              RMax(RAbs(RSub(high[k], close[k-1])),
                   RAbs(RSub(low[k], close[k-1]))))

\* 100 * (dm_smooth / tr_smooth)
DirectionalIndex(dm_smooth, tr_smooth) ==
    IF IsFinite(FloatDiv(dm_smooth, tr_smooth))
    THEN RMul(Rat(100), FloatDiv(dm_smooth, tr_smooth))
    ELSE FloatDiv(dm_smooth, tr_smooth)

\* 100 * abs(plus_di - minus_di) / (plus_di + minus_di)
DirectionalIndexRatio(plus_di, minus_di) ==
    IF ~IsFinite(plus_di) \/ ~IsFinite(minus_di) THEN NaN
    ELSE FloatDiv(RMul(Rat(100), RAbs(RSub(plus_di, minus_di))),
                  RAdd(plus_di, minus_di))

\* the sum and the number of the values of x[from..to] that are not NaN
RECURSIVE ValidSum(_, _, _)
ValidSum(x, from, to) ==
    IF to < from THEN Zero
    ELSE IF x[to] = NaN THEN ValidSum(x, from, to - 1)
    ELSE RAdd(ValidSum(x, from, to - 1), x[to])

RECURSIVE ValidCount(_, _, _)
ValidCount(x, from, to) ==
    IF to < from THEN 0
    ELSE ValidCount(x, from, to - 1) + (IF x[to] = NaN THEN 0 ELSE 1)

\* x.rolling(window=window, min_periods=1).mean() at row k of a series that
\* may hold NaN
RollingMeanOfValid(x, window, k) ==
    IF ValidCount(x, IMax(1, k - window + 1), k) = 0 THEN NaN
    ELSE RDiv(ValidSum(x, IMax(1, k - window + 1), k),
              Rat(ValidCount(x, IMax(1, k - window + 1), k)))

ComputingAdx == call.method = "_calculate_adx"

\* plus_dm, minus_dm
AdxDirectionalMovement ==
    /\ ComputingAdx
    /\ call.at = "entry"
    /\ call' = [call EXCEPT
          !.plus_dm = [k \in DOMAIN call.High |->
              DirectionalMovement(Rise(call.High, k), Fall(call.Low, k))],
          !.minus_dm = [k \in DOMAIN call.High |->
              DirectionalMovement(Fall(call.Low, k), Rise(call.High, k))],
          !.at = "true_range"]
    /\ UNCHANGED simulator

AdxTrueRange ==
    /\ ComputingAdx
    /\ call.at = "true_range"
    /\ call' = [call EXCEPT
          !.true_range = [k \in DOMAIN call.High |->
              TrueRange(call.High, call.Low, call.Close, k)],
          !.at = "smooth"]
    /\ UNCHANGED simulator

\* the smoothed values and +DI, -DI
AdxDirectionalIndex ==
    /\ ComputingAdx
    /\ call.at = "smooth"
    /\ call' = [call EXCEPT
          !.plus_di = [k \in DOMAIN call.High |->
              DirectionalIndex(RollingMean(call.plus_dm, call.period, k),
                               RollingMean(call.true_range, call.period, k))],
          !.minus_di = [k \in DOMAIN call.High |->
              DirectionalIndex(RollingMean(call.minus_dm, call.period, k),
                               RollingMean(call.true_range, call.period, k))],
          !.at = "dx"]
    /\ UNCHANGED simulator

AdxRatio ==
    /\ ComputingAdx
    /\ call.at = "dx"
    /\ call' = [call EXCEPT
          !.dx = [k \in DOMAIN call.High |->
              DirectionalIndexRatio(call.plus_di[k], call.minus_di[k])],
          !.at = "adx"]
    /\ UNCHANGED simulator

\* adx = dx.rolling(window=period, min_periods=1).mean(); return adx
AdxAverage ==
    /\ ComputingAdx
    /\ call.at = "adx"
    /\ call' = [call EXCEPT
          !.adx = [k \in DOMAIN call.High |->
              RollingMeanOfValid(call.dx, call.period, k)],
          !.at = "classify"]
    /\ UNCHANGED simulator

\* data['trend_regime'] = self._classify_trend_regime(adx)
AdxClassify ==
    /\ ComputingAdx
    /\ call.at = "classify"
    /\ call' = [call EXCEPT
          !.regime =
              IF call.classifier = "rsi_bollinger"
              THEN MarkTrending(call.adx,
                      [k \in DOMAIN call.adx |-> TrendDefault(call.classifier)])
              ELSE MarkRanging(call.adx, MarkTrending(call.adx,
                      [k \in DOMAIN call.adx |-> TrendDefault(call.classifier)])),
          !.at = "returned"]
    /\ UNCHANGED simulator

NextAdx ==
    \/ AdxDirectionalMovement
    \/ AdxTrueRange
    \/ AdxDirectionalIndex
    \/ AdxRatio
    \/ AdxAverage
    \/ AdxClassify

SpecAdx == InitAdx /\ [][NextAdx]_vars

-----------------------------------------------------------------------------
(* MovingAverageStrategy.generate_signals(data): the adapted parameters, the
   crossover signal and the call of _apply_min_holding_period. The regime
   labels are those of the last row of the data *)

MaxCrossoverBars == 4

CrossoverPrices == {100, 200, 300}

CrossoverBase ==
    { [short_window |-> 1, long_window |-> 2,
       min_crossover_strength |-> <<1, 1000>>, min_holding_period |-> h] :
         h \in {0, 2} }

InitCrossover ==
    /\ NoSimulation
    /\ \E n \in 1..MaxCrossoverBars : \E close \in [1..n -> CrossoverPrices] :
       \E base \in CrossoverBase : \E enabled \in BOOLEAN :
       \E volatility \in VolatilityLabels : \E trend \in TrendLabels :
          call = [method |-> "moving_average.generate_signals",
                  Close |-> [k \in 1..n |-> Rat(close[k])],
                  enable_regime_detection |-> enabled,
                  base_params |-> base, current_volatility |-> volatility,
                  current_trend |-> trend, adapted_params |-> base,
                  signal |-> <<>>, min_periods |-> 0, filtered_signal |-> <<>>,
                  position |-> 0, position_start |-> 0, i |-> 0,
                  at |-> "entry"]

\* self._get_adaptive_parameters(data, base_params)
AdaptedMovingAverage(base, enabled, volatility, trend) ==
    IF enabled
    THEN MovingAverageTrend(base,
             MovingAverageVolatility(base, base, volatility), trend)
    ELSE base

\* abs(short_ma - long_ma) / long_ma
CrossoverStrength(short_ma, long_ma) ==
    FloatDiv(RAbs(RSub(short_ma, long_ma)), long_ma)

\* signal[buy_condition] = 1; signal[sell_condition] = -1
CrossoverRule(short_ma, long_ma, min_strength) ==
    IF RLt(short_ma, long_ma)
       /\ FloatGt(CrossoverStrength(short_ma, long_ma), min_strength)
    THEN -1
    ELSE IF RGt(short_ma, long_ma)
            /\ FloatGt(CrossoverStrength(short_ma, long_ma), min_strength)
    THEN 1
    ELSE 0

\* the crossover signal of row k
CrossoverSignal(close, params, k) ==
    CrossoverRule(RollingMean(close, params.short_window, k),
                  RollingMean(close, params.long_window, k),
                  params.min_crossover_strength)

Crossing == call.method = "moving_average.generate_signals"

CrossoverAdapt ==
    /\ Crossing
    /\ call.at = "entry"
    /\ call' = [call EXCEPT
          !.adapted_params =
              AdaptedMovingAverage(call.base_params,
                                   call.enable_regime_detection,
                                   call.current_volatility, call.current_trend),
          !.at = "signal"]
    /\ UNCHANGED simulator

CrossoverSignals ==
    /\ Crossing
    /\ call.at = "signal"
    /\ call' = [call EXCEPT
          !.signal = [k \in DOMAIN call.Close |->
                         CrossoverSignal(call.Close, call.adapted_params, k)],
          !.at = "filter"]
    /\ UNCHANGED simulator

\* adapted_params['min_holding_period'] > 0 is false: return signal
CrossoverUnfiltered ==
    /\ Crossing
    /\ call.at = "filter"
    /\ ~(call.adapted_params.min_holding_period > 0)
    /\ call' = [call EXCEPT !.at = "returned"]
    /\ UNCHANGED simulator

\* self._apply_min_holding_period(signal, adapted_params['min_holding_period'])
CrossoverFilter ==
    /\ Crossing
    /\ call.at = "filter"
    /\ call.adapted_params.min_holding_period > 0
    /\ call' = [call EXCEPT
          !.method = "_apply_min_holding_period",
          !.min_periods = call.adapted_params.min_holding_period,
          !.filtered_signal = call.signal,
          !.position = 0, !.position_start = 0, !.i = 0]
    /\ UNCHANGED simulator

\* return filtered_signal; signal = <the filtered signal>; return signal
CrossoverFiltered ==
    /\ call.method = "_apply_min_holding_period"
    /\ call.i = Len(call.signal)
    /\ call.at = "filter"
    /\ call' = [call EXCEPT !.method = "moving_average.generate_signals",
                            !.signal = call.filtered_signal,
                            !.at = "returned"]
    /\ UNCHANGED simulator

NextCrossover ==
    \/ CrossoverAdapt
    \/ CrossoverSignals
    \/ CrossoverUnfiltered
    \/ CrossoverFilter
    \/ NextHolding
    \/ CrossoverFiltered

SpecCrossover == InitCrossover /\ [][NextCrossover]_vars

-----------------------------------------------------------------------------
(* Properties of the returned snapshot sequence *)

Returned == pc = "done"

LastBar == Len(data)

\* the bar processed last computed a total_value more than 50% below the
\* previous bar's (which was > 0)
DroppedByHalf ==
    /\ i >= 2
    /\ RGt(portfolio[i-1].total_value, Zero)
    /\ RLt(total_value, RMul(Half, portfolio[i-1].total_value))

\* the bar processed last computed a total_value below 1
FellBelowOne == i >= 1 /\ RLt(total_value, One)

ZeroedFrom(k) ==
    \A j \in k..LastBar :
        /\ portfolio[j].cash = Zero
        /\ portfolio[j].position = Zero
        /\ portfolio[j].holdings = Zero
        /\ portfolio[j].total_value = Zero

AllHold == \A k \in 1..LastBar : signals[k] = 0

\* C1: at every snapshot of the returned sequence (ordinary bars, the bar of a
\* circuit breaker, the bars filled in after a halt) total_value = cash + holdings.
C1_TotalIsCashPlusHoldings ==
    Returned =>
        \A k \in DOMAIN results.portfolio :
            results.portfolio[k].total_value =
                RAdd(results.portfolio[k].cash, results.portfolio[k].holdings)

\* C1 witness: a returned run that the 50% breaker halted at a bar holding a
\* position, with bars filled in after it.
C1_Witness ==
    /\ Returned
    /\ DroppedByHalf
    /\ i < LastBar
    /\ portfolio[i].position # Zero
    /\ portfolio[i].holdings # Zero

\* C2 (as claimed): for every bar t > 0 of the returned sequence,
\* daily_pnl[t] = total_value[t] - total_value[t-1], halted or not.
C2_DailyPnlIsDifference ==
    Returned =>
        \A t \in 2..LastBar :
            portfolio[t].daily_pnl =
                RSub(portfolio[t].total_value, portfolio[t-1].total_value)

\* C3: when the total_value computed at bar h is more than 50% below that of
\* bar h-1 (> 0), the loop is left and every bar after h carries position, cash,
\* holdings and total_value of bar h-1 with daily_pnl 0.
C3_DropHaltFreezes ==
    DroppedByHalf =>
        /\ pc # "loop"
        /\ \A j \in (i+1)..LastBar :
              /\ portfolio[j].position = portfolio[i-1].position
              /\ portfolio[j].cash = portfolio[i-1].cash
              /\ portfolio[j].holdings = portfolio[i-1].holdings
              /\ portfolio[j].total_value = portfolio[i-1].total_value
              /\ portfolio[j].daily_pnl = Zero

\* C3 witness: a returned run halted by the drop with a later bar whose signal
\* would have traded.
C3_Witness ==
    /\ Returned
    /\ DroppedByHalf
    /\ \E j \in (i+1)..LastBar : signals[j] # 0
    /\ portfolio[i].total_value # portfolio[i-1].total_value

\* C4 (as claimed): whenever the total_value computed at a processed bar is
\* below 1, that bar and every later bar have cash, position, holdings and
\* total_value 0.
C4_BelowOneLiquidates == (pc # "loop" /\ FellBelowOne) => ZeroedFrom(i)

\* C5 (as claimed): the result has halted_early = true and the halting bar's
\* timestamp exactly when a circuit breaker fired.
C5_HaltSurfaced ==
    Returned =>
        /\ {"halted_early", "halt_time"} \subseteq DOMAIN results
        /\ results.halted_early = (DroppedByHalf \/ FellBelowOne)
        /\ (results.halted_early => results.halt_time = i)

\* C6 (as claimed): a strategy that holds on every bar leaves every snapshot's
\* total_value at initial_capital, for any initial_capital > 0.
C6_HoldKeepsCapital ==
    (Returned /\ AllHold) =>
        \A k \in 1..LastBar : portfolio[k].total_value = initial_capital

\* C6 (amended): a strategy that holds on every bar leaves every snapshot's
\* total_value at initial_capital, for any initial_capital >= 1.
C6_HoldKeepsCapitalFromOne ==
    (Returned /\ AllHold /\ RGe(initial_capital, One)) =>
        \A k \in 1..LastBar : portfolio[k].total_value = initial_capital

\* C6 witness: an all-Hold run of several bars across a day boundary.
C6_Witness ==
    /\ Returned
    /\ AllHold
    /\ RGe(initial_capital, One)
    /\ LastBar >= 3
    /\ \E k \in 2..LastBar : data[k].date # data[k-1].date /\ data[k].Close # data[k-1].Close

\* C7 (as claimed): a one-bar run has num_trades = 0 and total_value = initial_capital.
C7_SingleBar ==
    (Returned /\ LastBar = 1) =>
        /\ results.num_trades = 0
        /\ portfolio[1].total_value = initial_capital

\* C7 (amended): a one-bar run has num_trades = 0 when the bar's signal is Hold
\* and 1 otherwise; total_value equals initial_capital when initial_capital >= 1
\* and is 0 (forced liquidation) when initial_capital < 1.
C7_SingleBarAmended ==
    (Returned /\ LastBar = 1) =>
        /\ results.num_trades = (IF signals[1] = 0 THEN 0 ELSE 1)
        /\ portfolio[1].total_value =
              (IF RGe(initial_capital, One) THEN initial_capital ELSE Zero)

\* C7 witness: a one-bar run whose bar opens a short position.
C7_Witness ==
    /\ Returned
    /\ LastBar = 1
    /\ signals[1] = -1
    /\ RLt(portfolio[1].position, Zero)

ScenarioPrices == <<100, 101, 99, 95>>

ScenarioSignals == <<1, 0, -1, 0>>

Scenario ==
    /\ LastBar = 4
    /\ \A k \in 1..4 : data[k].Close = Rat(ScenarioPrices[k])
    /\ signals = ScenarioSignals
    /\ initial_capital = Rat(100)
    /\ position_size = One
    /\ stop_loss = One
    /\ reinvest_profits

ScenarioOutcome ==
    /\ portfolio[1].cash = Zero
    /\ portfolio[1].position = One
    /\ portfolio[2].total_value = Rat(101)
    /\ portfolio[3].cash = Rat(99)
    /\ portfolio[3].position = Zero
    /\ portfolio[3].total_value = Rat(99)
    /\ portfolio[4].total_value = Rat(99)
    /\ results.num_trades = 2
    /\ results.win_rate = Zero
    /\ results.profit_factor = Zero

\* C8 (as claimed): prices [100, 101, 99, 95], Buy at bar 0, Sell at bar 2,
\* capital 100, position_size 1, stop_loss 1, reinvestment on give the stated
\* snapshots and metrics.
C8_Scenario == (Returned /\ Scenario) => ScenarioOutcome

\* C8 (amended): the same, when bars 1 and 2 fall on the same calendar day.
C8_ScenarioSameDay ==
    (Returned /\ Scenario /\ data[2].date = data[3].date) => ScenarioOutcome

\* C8 witness: the scenario run, returned, with day boundaries elsewhere.
C8_Witness ==
    /\ Returned
    /\ Scenario
    /\ data[2].date = data[3].date
    /\ data[1].date # data[2].date
    /\ data[3].date # data[4].date

LongStopped(k) ==
    /\ k >= 2
    /\ RGt(portfolio[k-1].position, Zero)
    /\ RGe(RDiv(RSub(entry_price, data[k].Close), entry_price), stop_loss)

ShortStopped(k) ==
    /\ k >= 2
    /\ RLt(portfolio[k-1].position, Zero)
    /\ RGe(RDiv(RSub(data[k].Close, entry_price), entry_price), stop_loss)

\* C9: a long whose loss at the bar's price reaches stop_loss gets the bar's
\* signal forced to Sell and is flat at the end of the bar, a short
\* symmetrically with Buy; no other bar's signal is altered, and the bar's
\* signal is altered only by the stop.
C9_StopLossOverride ==
    [][(pc = "loop" /\ i' = i + 1) =>
          /\ LongStopped(i + 1) =>
                portfolio'[i + 1].signal = -1 /\ portfolio'[i + 1].position = Zero
          /\ ShortStopped(i + 1) =>
                portfolio'[i + 1].signal = 1 /\ portfolio'[i + 1].position = Zero
          /\ \A j \in 1..LastBar :
                j # i + 1 => portfolio'[j].signal = portfolio[j].signal
          /\ ~(LongStopped(i + 1) \/ ShortStopped(i + 1)) =>
                portfolio'[i + 1].signal = signals[i + 1]]_vars

\* C9 witness: a bar on which the strategy emitted Buy while long, and the
\* stop forced Sell and closed the long.
C9_Witness ==
    /\ i >= 2
    /\ RGt(portfolio[i-1].position, Zero)
    /\ signals[i] = 1
    /\ portfolio[i].signal = -1
    /\ portfolio[i].position = Zero

\* C10: cash is never negative, at every snapshot.
C10_CashNonNegative == \A k \in 1..LastBar : RGe(portfolio[k].cash, Zero)

\* C10 witness: a long entered with the whole cash (cash 0), and later a short
\* closed.
C10_Witness ==
    /\ \E k \in 1..LastBar :
          portfolio[k].cash = Zero /\ RGt(portfolio[k].position, Zero)
    /\ \E k \in 2..i :
          RLt(portfolio[k-1].position, Zero) /\ portfolio[k].position = Zero

\* bar k is a Buy (Sell) emitted while the previous row is flat
FlatAt(k) == k = 1 \/ portfolio[k-1].position = Zero

BuyWhileFlat(k) == FlatAt(k) /\ signals[k] = 1

SellWhileFlat(k) == FlatAt(k) /\ signals[k] = -1

\* the cash of the previous row plus, on the first bar of a day that follows a
\* profitable day, that day's profit
CashInto(k) ==
    IF k = 1 THEN initial_capital
    ELSE IF /\ reinvest_profits
            /\ data[k].date # data[k-1].date
            /\ RGt(portfolio[k-1].total_value, daily_start_value)
         THEN RAdd(portfolio[k-1].cash,
                   RSub(portfolio[k-1].total_value, daily_start_value))
         ELSE portfolio[k-1].cash

SizedValue(cash) == RMin(cash, RMul(cash, position_size))

LongEntered(row, carried, price) ==
    /\ row.position = RDiv(SizedValue(carried), price)
    /\ row.cash = RSub(carried, SizedValue(carried))
    /\ RAdd(RMul(row.position, price), row.cash) = carried

RowZeroed(row) ==
    /\ row.position = Zero
    /\ row.cash = Zero
    /\ row.holdings = Zero
    /\ row.total_value = Zero

ShortEntered(row, carried, price) ==
    /\ row.position = RNeg(RDiv(RMul(carried, position_size), price))
    /\ row.cash = carried

\* C12 (as claimed): a Sell while flat opens a short of
\* (cash * position_size) / price shares, recorded as a negative position, and
\* leaves the cash unchanged.
C12_SellEntersShort ==
    [][(pc = "loop" /\ i' = i + 1 /\ SellWhileFlat(i + 1)) =>
          ShortEntered(portfolio'[i + 1], CashInto(i + 1), data[i + 1].Close)]_vars

\* C12 (amended): the same when the cash carried into the bar is at least 1;
\* when it is below 1 the forced liquidation zeroes the bar.
C12_SellEntersShortUnlessLiquidated ==
    [][(pc = "loop" /\ i' = i + 1 /\ SellWhileFlat(i + 1)) =>
          IF RGe(CashInto(i + 1), One)
          THEN ShortEntered(portfolio'[i + 1], CashInto(i + 1), data[i + 1].Close)
          ELSE RowZeroed(portfolio'[i + 1])]_vars

\* C12 witness: a short opened after the first bar with half of the cash.
C12_Witness ==
    /\ i >= 2
    /\ signals[i] = -1
    /\ portfolio[i-1].position = Zero
    /\ position_size = Half
    /\ RLt(portfolio[i].position, Zero)
    /\ portfolio[i].cash = portfolio[i-1].cash
    /\ RGt(portfolio[i].cash, Zero)

\* bar k closes the position of the previous row: the opposite signal, or the stop
ClosesAt(k) ==
    /\ k >= 2
    /\ \/ RGt(portfolio[k-1].position, Zero) /\ (signals[k] = -1 \/ LongStopped(k))
       \/ RLt(portfolio[k-1].position, Zero) /\ (signals[k] = 1 \/ ShortStopped(k))

Closed(row, carried, shares, price) ==
    /\ row.cash = RAdd(carried, RMul(RAbs(shares), price))
    /\ row.position = Zero
    /\ row.holdings = Zero

\* C13 (as claimed): a closing trade adds |shares of the previous bar| * price
\* to the carried cash and leaves the position flat (0 shares, holdings 0).
C13_CloseCreditsCash ==
    [][(pc = "loop" /\ i' = i + 1 /\ ClosesAt(i + 1)) =>
          Closed(portfolio'[i + 1], CashInto(i + 1), portfolio[i].position,
                 data[i + 1].Close)]_vars

\* C13 (amended): the same unless the forced liquidation fires at the bar (its
\* total_value is below 1 and the 50% breaker does not fire), which zeroes the
\* bar's cash as well.
C13_CloseCreditsCashUnlessLiquidated ==
    [][(pc = "loop" /\ i' = i + 1 /\ ClosesAt(i + 1)) =>
          IF FellBelowOne' /\ ~DroppedByHalf'
          THEN RowZeroed(portfolio'[i + 1])
          ELSE Closed(portfolio'[i + 1], CashInto(i + 1), portfolio[i].position,
                      data[i + 1].Close)]_vars

\* C13 witness: a short closed by a Buy, the cash raised by the value of the
\* shares, on a bar that no breaker touches.
C13_Witness ==
    /\ i >= 2
    /\ RLt(portfolio[i-1].position, Zero)
    /\ signals[i] = 1
    /\ portfolio[i].position = Zero
    /\ portfolio[i].holdings = Zero
    /\ RGt(portfolio[i].cash, portfolio[i-1].cash)
    /\ ~FellBelowOne
    /\ ~DroppedByHalf

\* row k of the sequence pf follows row k-1 by a trade rule: no flip between
\* long and short, a held position kept unless the recorded signal closes it,
\* a flat one kept flat on Hold
FollowsTradeRules(pf, k) ==
    /\ ~(RGt(pf[k-1].position, Zero) /\ RLt(pf[k].position, Zero))
    /\ ~(RLt(pf[k-1].position, Zero) /\ RGt(pf[k].position, Zero))
    /\ (RGt(pf[k-1].position, Zero) /\ pf[k].signal # -1) =>
          pf[k].position = pf[k-1].position
    /\ (RLt(pf[k-1].position, Zero) /\ pf[k].signal # 1) =>
          pf[k].position = pf[k-1].position
    /\ (pf[k-1].position = Zero /\ pf[k].signal = 0) => pf[k].position = Zero

\* the bar processed last was zeroed by the forced liquidation
LiquidatedAtLast == FellBelowOne /\ ~DroppedByHalf

\* C14 (as claimed): position changes only by the trade rules: never from long
\* to short or back within one bar, and the signed share count of a held
\* position is unchanged from its entry bar until the closing bar.
C14_PositionByTradeRules ==
    Returned => \A k \in 2..LastBar : FollowsTradeRules(results.portfolio, k)

\* C14 (amended): the same for every bar the loop has processed, except a bar
\* zeroed by the forced liquidation; the bars filled in after a halt are not
\* covered.
C14_PositionByTradeRulesProcessed ==
    \A k \in 2..i :
        (k = i /\ LiquidatedAtLast) \/ FollowsTradeRules(portfolio, k)

\* C14 witness: a long entered on the first bar, held over two bars, one of
\* them carrying a Buy signal, and closed on the fourth.
C14_Witness ==
    /\ i = 4
    /\ RGt(portfolio[1].position, Zero)
    /\ portfolio[3].position = portfolio[1].position
    /\ \E k \in 2..3 : portfolio[k].signal = 1
    /\ portfolio[4].position = Zero
    /\ ~LiquidatedAtLast

\* bar k is the first bar of a new calendar day
DayBoundary(k) == k >= 2 /\ data[k].date # data[k-1].date

\* C15 (as claimed): on the first bar of a new calendar day the cash the bar
\* works with is the previous cash plus, when reinvestment is enabled and the
\* previous total_value exceeds daily_start_value, the difference, whatever
\* the bar's signal: a bar that does not trade (and is not zeroed by the
\* forced liquidation) ends with exactly that cash, a trading bar applies its
\* rule to it; in both cases daily_start_value becomes the previous
\* total_value.
C15_DayBoundaryReinvestment ==
    [][(pc = "loop" /\ i' = i + 1 /\ DayBoundary(i + 1)) =>
          /\ daily_start_value' = portfolio[i].total_value
          /\ (FellBelowOne' /\ ~DroppedByHalf') \/
                IF BuyWhileFlat(i + 1)
                THEN LongEntered(portfolio'[i + 1], CashInto(i + 1),
                                 data[i + 1].Close)
                ELSE IF SellWhileFlat(i + 1)
                THEN ShortEntered(portfolio'[i + 1], CashInto(i + 1),
                                  data[i + 1].Close)
                ELSE IF ClosesAt(i + 1)
                THEN Closed(portfolio'[i + 1], CashInto(i + 1),
                            portfolio[i].position, data[i + 1].Close)
                ELSE portfolio'[i + 1].cash = CashInto(i + 1)]_vars

NumberAtMost(x, y) == IsFinite(x) /\ RLe(x, y)

NonDecreasing(pf) ==
    \A k \in 2..Len(pf) : RGe(pf[k].total_value, pf[k-1].total_value)

\* C17 (as claimed): max_drawdown is <= 0 for every run, and equals 0 exactly
\* when total_value is non-decreasing over the whole returned sequence.
C17_MaxDrawdown ==
    Returned =>
        /\ NumberAtMost(results.max_drawdown, Zero)
        /\ (results.max_drawdown = Zero) <=> NonDecreasing(results.portfolio)

PnlOf(pf) == [k \in 1..Len(pf) |-> pf[k].daily_pnl]

GrossProfit(pf) ==
    RSum(PnlOf(pf),
         { k \in 1..Len(pf) : pf[k].signal # 0 /\ RGt(pf[k].daily_pnl, Zero) })

GrossLoss(pf) ==
    RAbs(RSum(PnlOf(pf),
              { k \in 1..Len(pf) : pf[k].signal # 0 /\ RLt(pf[k].daily_pnl, Zero) }))

\* C19: profit_factor is the sum of the positive daily_pnl over the signal
\* bars divided by the absolute sum of the negative daily_pnl over the signal
\* bars; it is +infinity when there are no losses and the gross profit is > 0,
\* and 0 when there are no signal bars.
C19_ProfitFactor ==
    Returned =>
        /\ (\A k \in 1..LastBar : results.portfolio[k].signal = 0) =>
              results.profit_factor = Zero
        /\ ( /\ \E k \in 1..LastBar : results.portfolio[k].signal # 0
             /\ GrossLoss(results.portfolio) = Zero
             /\ RGt(GrossProfit(results.portfolio), Zero) ) =>
              results.profit_factor = Inf
        /\ GrossLoss(results.portfolio) # Zero =>
              /\ IsFinite(results.profit_factor)
              /\ RMul(results.profit_factor, GrossLoss(results.portfolio)) =
                    GrossProfit(results.portfolio)

\* C19 witness: a returned run with a winning and a losing signal bar, and a
\* Hold bar whose daily_pnl is not 0.
C19_Witness ==
    /\ Returned
    /\ RGt(GrossProfit(results.portfolio), Zero)
    /\ RGt(GrossLoss(results.portfolio), Zero)
    /\ \E k \in 1..LastBar :
          results.portfolio[k].signal = 0 /\ results.portfolio[k].daily_pnl # Zero

\* the ratio metrics of a returned dict
RatioMetrics(r) ==
    { r.total_return, r.annualized_return, r.sharpe_ratio, r.max_drawdown,
      r.volatility, r.win_rate, r.profit_factor }

\* the per-bar returns of the sequence pf, undefined ones left out
ReturnsOf(pf) ==
    SelectSeq([k \in 1..(Len(pf) - 1) |->
                  IF pf[k].total_value = Zero
                  THEN IF pf[k + 1].total_value = Zero THEN NaN ELSE Inf
                  ELSE RDiv(RSub(pf[k + 1].total_value, pf[k].total_value),
                            pf[k].total_value)],
              NotNaN)

\* at least two return samples, all equal: their standard deviation is 0
ZeroDeviation(r) == Len(r) >= 2 /\ \A k \in 1..Len(r) : r[k] = r[1]

ElapsedDays == (data[LastBar].time - data[1].time) \div 24

\* C20 (as claimed): every ratio metric of a result is a defined number:
\* sharpe_ratio is 0 when the standard deviation of the per-bar returns is 0,
\* annualized_return is 0 when the elapsed days are 0, and no metric is
\* not-a-number for any run, one- and two-bar runs and runs ending in forced
\* liquidation included.
C20_MetricsDefined ==
    Returned =>
        /\ ZeroDeviation(ReturnsOf(results.portfolio)) => results.sharpe_ratio = Zero
        /\ ElapsedDays = 0 => results.annualized_return = Zero
        /\ NaN \notin RatioMetrics(results)

Compared == pc = "compared"

SharpeOf(k) == SharpeOrder(comparison.results[k].sharpe_ratio)

ReturnOf(k) == comparison.results[k].total_return

\* a >= b as numbers: neither is NaN
NumberAtLeast(a, b) == a # NaN /\ b # NaN /\ RGe(a, b)

\* strategy b is maximal: no compared strategy has a greater sharpe_ratio,
\* and none with that sharpe_ratio has a greater total_return
Maximal(b) ==
    \A j \in 1..Len(comparison.results) :
        /\ NumberAtLeast(SharpeOf(b), SharpeOf(j))
        /\ SharpeOf(j) = SharpeOf(b) => NumberAtLeast(ReturnOf(b), ReturnOf(j))

\* C22 (as claimed): best_strategy of a comparison is a strategy whose
\* sharpe_ratio is maximal among all compared strategies and, among those with
\* maximal sharpe_ratio, whose total_return is maximal.
C22_BestIsMaximal ==
    Compared =>
        /\ comparison.best_strategy \in 1..Len(strategies)
        /\ Maximal(comparison.best_strategy)

\* the bars before j at which the filter let a signal through
AcceptedBefore(j) == { e \in 1..(j - 1) : call.filtered_signal[e] # 0 }

\* the last of them: the entry of the position held at bar j
EntryBefore(j) == CHOOSE e \in AcceptedBefore(j) : \A f \in AcceptedBefore(j) : f <= e

\* what the filter is to leave at bar j, given what it left before j
FilteredAs(j) ==
    IF call.signal[j] = 0 \/ AcceptedBefore(j) = {} THEN call.signal[j]
    ELSE IF call.signal[j] = call.filtered_signal[EntryBefore(j)] THEN 0
    ELSE IF j - EntryBefore(j) < call.min_periods THEN 0
    ELSE call.signal[j]

\* C23: after a signal is accepted at bar e as the entry, every opposite
\* signal at a bar i with i - e < min_holding_period is replaced by Hold, every
\* same-direction signal while the position is held is replaced by Hold, and
\* an opposite signal at a bar with i - e >= min_holding_period passes through
\* unchanged and becomes the new entry; bars not yet processed are untouched.
C23_MinHoldingFilter ==
    call.method = "_apply_min_holding_period" =>
        /\ \A j \in 1..call.i : call.filtered_signal[j] = FilteredAs(j)
        /\ \A j \in (call.i + 1)..Len(call.signal) :
              call.filtered_signal[j] = call.signal[j]
        /\ call.i >= 1 /\ AcceptedBefore(call.i + 1) # {} =>
              /\ call.position_start = EntryBefore(call.i + 1)
              /\ call.position = call.filtered_signal[call.position_start]

\* C23 witness: a finished filter run with min_periods 2 that replaced an
\* early opposite signal and a same-direction signal by Hold and let an
\* opposite signal through exactly min_periods bars after the entry.
C23_Witness ==
    /\ call.method = "_apply_min_holding_period"
    /\ call.i = Len(call.signal)
    /\ call.min_periods = 2
    /\ \E e \in 1..call.i :
          /\ call.filtered_signal[e] # 0
          /\ e + 2 <= call.i
          /\ call.signal[e + 1] = -call.filtered_signal[e]
          /\ call.filtered_signal[e + 1] = 0
          /\ call.filtered_signal[e + 2] = -call.filtered_signal[e]
    /\ \E j \in 2..call.i :
          /\ call.signal[j] # 0
          /\ call.filtered_signal[j] = 0
          /\ call.signal[j] = call.filtered_signal[EntryBefore(j)]

\* the configuration is outside the documented ranges: initial_capital > 0,
\* position_size in (0, 1], stop_loss in (0, 1)
InvalidConfiguration ==
    \/ RLe(initial_capital, Zero)
    \/ RLe(position_size, Zero) \/ RGt(position_size, One)
    \/ RLe(stop_loss, Zero) \/ RGe(stop_loss, One)

\* C24 (as claimed): a run whose initial_capital is <= 0, whose position_size
\* is outside (0, 1] or whose stop_loss is outside (0, 1) is rejected before
\* any bar is processed: no bar is processed and no result is returned.
C24_ConfigurationValidated ==
    InvalidConfiguration => (i = 0 /\ ~results.returned)

\* the simulator opened a position at processed bar k: flat before, not after
OpenedAt(pf, k) ==
    /\ k = 1 \/ pf[k-1].position = Zero
    /\ pf[k].position # Zero

\* the simulator closed a position at processed bar k on a Buy or Sell
ClosedAt(pf, k) ==
    /\ k > 1
    /\ pf[k-1].position # Zero
    /\ pf[k].position = Zero
    /\ pf[k].signal # 0

\* C25 (as claimed): num_trades is the number of trades executed: the number
\* of bars on which the simulator opened or closed a position; a non-Hold
\* signal that causes no trade and a signal on a bar after a halt are not
\* counted.
C25_NumTradesExecuted ==
    Returned =>
        results.num_trades =
            Cardinality({ k \in 1..i : \/ OpenedAt(results.portfolio, k)
                                        \/ ClosedAt(results.portfolio, k) })

\* the entry signal of bar j: what the conditions alone give
EntrySignal(j) ==
    IF call.sell_condition[j] THEN -1 ELSE IF call.buy_condition[j] THEN 1 ELSE 0

\* the bars before j that carry a signal in the output
SignalledBefore(j) == { e \in 1..(j - 1) : call.signal[e] # 0 }

LastSignalled(j) ==
    CHOOSE e \in SignalledBefore(j) : \A f \in SignalledBefore(j) : f <= e

\* the implied position before bar j: that of the last bar that carries a
\* signal, when that signal was an entry; flat when it was a converted exit
\* or when there is none
ImpliedBefore(j) ==
    IF SignalledBefore(j) = {} THEN 0
    ELSE IF EntrySignal(LastSignalled(j)) # 0 THEN EntrySignal(LastSignalled(j))
    ELSE 0

\* what the loop is to leave at bar j
WithExit(j) ==
    IF EntrySignal(j) # 0 THEN EntrySignal(j)
    ELSE IF ImpliedBefore(j) = 1 /\ call.exit_long[j] THEN -1
    ELSE IF ImpliedBefore(j) = -1 /\ call.exit_short[j] THEN 1
    ELSE 0

\* C26: the generator tracks an implied position bar by bar (an entry signal
\* sets it to long or short); on a bar with no entry signal, an implied long
\* with the long-exit condition makes the bar Sell and the implied position
\* flat (symmetrically Buy for an implied short); a bar is never converted
\* while the implied position is flat.
C26_ExitOverride ==
    call.method = "generate_signals" =>
        /\ \A j \in 1..call.i : call.signal[j] = WithExit(j)
        /\ \A j \in (call.i + 1)..Len(call.signal) :
              call.signal[j] = EntrySignal(j)
        /\ call.position = ImpliedBefore(call.i + 1)
        /\ \A j \in 1..call.i :
              (EntrySignal(j) = 0 /\ ImpliedBefore(j) = 0) => call.signal[j] = 0

\* C26 witness: a finished run in which a long was entered, converted to a
\* Sell on a later bar by the exit condition, and the bar after that, flat
\* with both exit conditions true, stayed Hold.
C26_Witness ==
    /\ call.method = "generate_signals"
    /\ call.i = Len(call.signal)
    /\ call.i = 3
    /\ EntrySignal(1) = 1
    /\ EntrySignal(2) = 0 /\ call.signal[2] = -1
    /\ EntrySignal(3) = 0 /\ call.exit_long[3] /\ call.exit_short[3]
    /\ call.signal[3] = 0

-----------------------------------------------------------------------------
(* Parameter adaptation *)

\* the trend adjustment of each variant's table, applied to the values v
OnTop(variant, trend, v) ==
    CASE variant = "rsi_bollinger" /\ trend = "trending" ->
           [rsi_oversold |-> RSub(v.rsi_oversold, Rat(10)),
            rsi_overbought |-> RAdd(v.rsi_overbought, Rat(10)),
            bb_std |-> RMul(v.bb_std, <<3, 2>>)]
      [] variant = "moving_average" /\ trend = "trending" ->
           [short_window |-> IMin(Scaled(v.short_window, <<6, 5>>), 30),
            long_window |-> IMin(Scaled(v.long_window, <<13, 10>>), 100),
            min_holding_period |-> IMax(v.min_holding_period, 5)]
      [] variant = "moving_average" /\ trend = "ranging" ->
           [short_window |-> IMax(Scaled(v.short_window, <<4, 5>>), 10),
            long_window |-> IMax(Scaled(v.long_window, <<7, 10>>), 30)]
      [] variant = "moving_average_volume_compensated" /\ trend = "trending" ->
           [short_window |-> IMin(Scaled(v.short_window, <<6, 5>>), 30),
            long_window |-> IMin(Scaled(v.long_window, <<13, 10>>), 100)]
      [] variant = "moving_average_volume_compensated" /\ trend = "ranging" ->
           [short_window |-> IMax(Scaled(v.short_window, <<4, 5>>), 10),
            long_window |-> IMax(Scaled(v.long_window, <<7, 10>>), 30)]
      [] variant = "mean_reversion" /\ trend = "trending" ->
           [window |-> IMin(Scaled(v.window, <<6, 5>>), 30),
            deviation_threshold |-> RMul(v.deviation_threshold, <<13, 10>>)]
      [] OTHER -> [unadjusted |-> TRUE]

\* the record r carries every value of the record t
Carries(r, t) == \A p \in DOMAIN t : p = "unadjusted" \/ r[p] = t[p]

\* C27: in every variant and for every pair of labels, the trend step turns
\* each parameter it adjusts into the trend adjustment of the value the
\* volatility step left, not of the base value
C27_TrendOnTopOfVolatility ==
    [][AdaptTrend =>
         Carries(call'.adapted_params,
                 OnTop(call.variant, call.current_trend, call.adapted_params))]_vars

-----------------------------------------------------------------------------
(* Trend regime labels *)

\* the label the thresholds 25 and 20 give the number x
LabelOf(x) ==
    IF RGt(x, Rat(25)) THEN "trending"
    ELSE IF RLt(x, Rat(20)) THEN "ranging"
    ELSE "moderate"

\* C28: every classifier labels a bar trending when its ADX is above 25,
\* ranging when it is below 20 and moderate when it lies in [20, 25]
C28_TrendLabels ==
    (Classifying /\ call.at = "returned") =>
        \A k \in DOMAIN call.adx :
            call.adx[k] # NaN => call.regime[k] = LabelOf(call.adx[k])

-----------------------------------------------------------------------------
(* Mean-reversion signals *)

\* C29: a bar whose deviation is -threshold or lower gets Buy, one whose
\* deviation is +threshold or higher gets Sell, every other bar Hold
C29_BoundaryIncluded ==
    (Reverting /\ call.at = "returned") =>
        \A k \in DOMAIN call.signal :
            call.signal[k] =
                IF RLe(call.deviation[k], RNeg(call.deviation_threshold)) THEN 1
                ELSE IF RGe(call.deviation[k], call.deviation_threshold) THEN -1
                ELSE 0

-----------------------------------------------------------------------------
(* ADX with no directional movement *)

\* +DI and -DI of bar k are numbers whose sum is zero
IndexSumZero(k) ==
    /\ IsFinite(call.plus_di[k]) /\ IsFinite(call.minus_di[k])
    /\ RAdd(call.plus_di[k], call.minus_di[k]) = Zero

\* no bar of the series has directional movement
NoDirectionalMovement ==
    \A k \in DOMAIN call.High : call.plus_dm[k] = Zero /\ call.minus_dm[k] = Zero

\* C30: a bar whose +DI and -DI sum to zero has DX 0, ADX is a number on
\* every bar, and a series without directional movement is labelled ranging
\* on every bar
C30_AdxDefined ==
    (ComputingAdx /\ call.at = "returned") =>
        /\ \A k \in DOMAIN call.High : IndexSumZero(k) => call.dx[k] = Zero
        /\ \A k \in DOMAIN call.High : IsFinite(call.adx[k])
        /\ NoDirectionalMovement =>
               \A k \in DOMAIN call.High : call.regime[k] = "ranging"

-----------------------------------------------------------------------------
(* The moving-average strategy without a holding period *)

\* C31: a moving-average strategy built with min_holding_period 0 returns,
\* on every bar and under every pair of regime labels, the crossover signal
\* of its adapted windows and strength
C31_NoHoldingRestriction ==
    (Crossing /\ call.at = "returned"
       /\ call.base_params.min_holding_period = 0) =>
        \A k \in DOMAIN call.Close :
            call.signal[k] = CrossoverSignal(call.Close, call.adapted_params, k)

-----------------------------------------------------------------------------
(* A signal in the direction already held *)

\* the strategy signals Buy at bar k while long, or Sell while short
SameDirection(k) ==
    /\ k >= 2
    /\ \/ RGt(portfolio[k-1].position, Zero) /\ signals[k] = 1
       \/ RLt(portfolio[k-1].position, Zero) /\ signals[k] = -1

CarriedOver(row, prev) ==
    /\ row.position = prev.position
    /\ row.cash = prev.cash
    /\ row.entry_price = prev.entry_price

\* C32 (as claimed): on a bar with Buy while long or Sell while short the
\* position shares, the cash and the recorded entry price are those of the
\* previous bar.
C32_SameDirectionNoOp ==
    [][(pc = "loop" /\ i' = i + 1 /\ SameDirection(i + 1)) =>
          CarriedOver(portfolio'[i + 1], portfolio[i])]_vars

\* C32 (amended): the same unless the stop-loss fires at the bar, which then
\* closes the position, or the forced liquidation zeroes the bar.
C32_SameDirectionNoOpUnlessStopped ==
    [][(pc = "loop" /\ i' = i + 1 /\ SameDirection(i + 1)) =>
          IF FellBelowOne' /\ ~DroppedByHalf'
          THEN RowZeroed(portfolio'[i + 1])
          ELSE IF LongStopped(i + 1) \/ ShortStopped(i + 1)
          THEN portfolio'[i + 1].position = Zero
          ELSE CarriedOver(portfolio'[i + 1], portfolio[i])]_vars

\* C32 witness: a long kept with its shares and cash over a bar that carries a
\* Buy and whose price differs from the entry price.
C32_Witness ==
    /\ i >= 2
    /\ signals[i] = 1
    /\ RGt(portfolio[i-1].position, Zero)
    /\ portfolio[i].position = portfolio[i-1].position
    /\ portfolio[i].cash = portfolio[i-1].cash
    /\ data[i].Close # data[i-1].Close
    /\ ~FellBelowOne

-----------------------------------------------------------------------------
(* The value realised by a close *)

\* what a position of the given shares, entered at entry, is worth at price
MarkToMarket(shares, entry, price) ==
    IF RGt(shares, Zero) THEN RMul(shares, price)
    ELSE RMul(RSub(entry, price), RAbs(shares))

\* C33: on a bar that closes a position and does not open a calendar day,
\* the snapshot's total_value is the previous bar's cash plus the value the
\* position has at the bar's price: shares * price for a long,
\* (entry_price - price) * |shares| for a short
C33_CloseRealisesValue ==
    [][(pc = "loop" /\ i' = i + 1 /\ ClosesAt(i + 1) /\ ~DayBoundary(i + 1)) =>
          portfolio'[i + 1].total_value =
              RAdd(portfolio[i].cash,
                   MarkToMarket(portfolio[i].position, entry_price,
                                data[i + 1].Close))]_vars

-----------------------------------------------------------------------------
(* The value across an entry *)

\* the position goes from flat to long or short at bar k of the sequence pf
OpensAt(pf, k) ==
    /\ k >= 2
    /\ pf[k-1].position = Zero
    /\ pf[k].position # Zero

\* C34: on every bar where the position goes from flat to long or from flat
\* to short, total_value equals the previous bar's total_value
C34_EntryKeepsValue ==
    \A k \in 2..i :
        OpensAt(portfolio, k) =>
            portfolio[k].total_value = portfolio[k-1].total_value

\* the profit folded into the cash of bar k: on the first bar of a calendar
\* day, with reinvestment enabled, what the previous total_value exceeds
\* daily_start_value by
ReinvestedAt(k) ==
    IF /\ k >= 2
       /\ reinvest_profits
       /\ data[k].date # data[k-1].date
       /\ RGt(portfolio[k-1].total_value, daily_start_value)
    THEN RSub(portfolio[k-1].total_value, daily_start_value)
    ELSE Zero

\* C34 (amended): on every bar where the position goes from flat to long or
\* from flat to short, total_value equals the previous bar's total_value plus
\* the profit reinvested at the bar, which is zero unless the bar opens a
\* calendar day.
C34_EntryKeepsValuePlusReinvested ==
    [][(pc = "loop" /\ i >= 1 /\ i' = i + 1
          /\ portfolio[i].position = Zero
          /\ portfolio'[i + 1].position # Zero) =>
          portfolio'[i + 1].total_value =
              RAdd(portfolio[i].total_value, ReinvestedAt(i + 1))]_vars

\* C34 witness: a short opened from flat, after an earlier trade changed the
\* portfolio value, on a bar that keeps the previous total_value.
C34_Witness ==
    /\ i >= 3
    /\ OpensAt(portfolio, i)
    /\ RLt(portfolio[i].position, Zero)
    /\ portfolio[i].total_value = portfolio[i-1].total_value
    /\ portfolio[i].total_value # initial_capital

-----------------------------------------------------------------------------
(* Positions and their stops *)

\* the bar on which the position open at the end of bar k was entered: the
\* first bar of the run of non-flat rows that ends at k
RECURSIVE EnteredAt(_, _)
EnteredAt(pf, k) ==
    IF k = 1 \/ pf[k-1].position = Zero THEN k ELSE EnteredAt(pf, k - 1)

\* the loss of the position open at the end of bar k, as a fraction of the
\* price of its entry bar
OpenLoss(pf, k) ==
    IF RGt(pf[k].position, Zero)
    THEN RDiv(RSub(data[EnteredAt(pf, k)].Close, data[k].Close),
              data[EnteredAt(pf, k)].Close)
    ELSE RDiv(RSub(data[k].Close, data[EnteredAt(pf, k)].Close),
              data[EnteredAt(pf, k)].Close)

\* the loop has processed bar k and no circuit breaker fired at it
ProcessedBeforeHalt(k) == k < i \/ (k = i /\ ~DroppedByHalf /\ ~FellBelowOne)

\* C35: at the end of every bar processed before a halt, the loss of an open
\* long or short, measured from the price of the bar on which that position
\* was entered, is below stop_loss
C35_NoPositionPastStop ==
    \A k \in 1..i :
        (ProcessedBeforeHalt(k) /\ portfolio[k].position # Zero) =>
            RLt(OpenLoss(portfolio, k), stop_loss)

\* C35 witness: a position entered after an earlier one was closed, open at
\* the end of a bar without a halt, where the loss measured from the earlier
\* position's entry price would have reached the stop.
C35_Witness ==
    /\ ProcessedBeforeHalt(i)
    /\ i >= 3
    /\ portfolio[i].position # Zero
    /\ EnteredAt(portfolio, i) >= 3
    /\ portfolio[1].position # Zero
    /\ RLt(OpenLoss(portfolio, i), stop_loss)
    /\ \/ /\ RGt(portfolio[i].position, Zero)
          /\ RGe(RDiv(RSub(data[1].Close, data[i].Close), data[1].Close),
                 stop_loss)
       \/ /\ RLt(portfolio[i].position, Zero)
          /\ RGe(RDiv(RSub(data[i].Close, data[1].Close), data[1].Close),
                 stop_loss)

-----------------------------------------------------------------------------
(* The sign of the portfolio value *)

\* C36: with initial_capital > 0, position_size in (0, 1] and stop_loss in
\* (0, 1) (prices are positive), total_value is >= 0 at every snapshot of the
\* returned sequence, the bar of a circuit breaker included
C36_ValueNonNegative ==
    (Returned /\ ~InvalidConfiguration) =>
        \A k \in 1..LastBar : RGe(results.portfolio[k].total_value, Zero)

\* C36 witness: a returned run of a valid configuration in which a short was
\* carried at a loss without reaching its stop, its snapshot worth less than
\* its cash.
C36_Witness ==
    /\ Returned
    /\ ~InvalidConfiguration
    /\ \E k \in 1..LastBar :
          /\ RLt(results.portfolio[k].position, Zero)
          /\ RLt(results.portfolio[k].holdings, Zero)
          /\ RLt(results.portfolio[k].total_value, results.portfolio[k].cash)

-----------------------------------------------------------------------------
(* The output of the minimum-holding-period filter *)

\* bars a < b carry consecutive non-Hold values of the sequence out
ConsecutiveSignals(out, a, b) ==
    /\ a < b
    /\ out[a] # 0 /\ out[b] # 0
    /\ \A j \in (a + 1)..(b - 1) : out[j] = 0

\* C37: in the output of the filter each bar's value is the input value of
\* the bar or Hold, and any two consecutive non-Hold outputs have opposite
\* directions and lie at least min_periods bars apart
C37_FilterOutput ==
    (call.method = "_apply_min_holding_period" /\ call.i = Len(call.signal)) =>
        /\ \A j \in DOMAIN call.signal :
              call.filtered_signal[j] \in {call.signal[j], 0}
        /\ \A a, b \in DOMAIN call.signal :
              ConsecutiveSignals(call.filtered_signal, a, b) =>
                  /\ call.filtered_signal[b] = -call.filtered_signal[a]
                  /\ b - a >= call.min_periods

\* C37 witness: a finished run with min_periods 2 whose output holds three
\* non-Hold values, after it replaced a signal of the input by Hold between
\* the first two.
C37_Witness ==
    /\ call.method = "_apply_min_holding_period"
    /\ call.i = Len(call.signal)
    /\ call.min_periods = 2
    /\ \E a, b, c \in DOMAIN call.signal :
          /\ ConsecutiveSignals(call.filtered_signal, a, b)
          /\ ConsecutiveSignals(call.filtered_signal, b, c)
          /\ \E j \in (a + 1)..(b - 1) : call.signal[j] # 0

-----------------------------------------------------------------------------
(* Backtester.run(data, RSIBollingerStrategy): generate_signals is executed
   on the bars, and the loop of run() then follows the signals it returned *)

MaxDrivenBars == 3

\* hourly bars of one day
HourlyBars == <<0, 1, 2, 3, 4, 5>>

\* the buy and the sell condition need the RSI below rsi_oversold and above
\* rsi_overbought: they exclude each other on a bar
InitDriven ==
    /\ \E n \in 1..MaxDrivenBars : \E ps \in PriceSeries :
       \E buy \in [1..n -> BOOLEAN] : \E sell \in [1..n -> BOOLEAN] :
       \E xl \in [1..n -> BOOLEAN] : \E xs \in [1..n -> BOOLEAN] :
          /\ \A k \in 1..n : ~(buy[k] /\ sell[k])
          /\ data = Bars(ps, HourlyBars, n)
          /\ call = [method |-> "generate_signals", buy_condition |-> buy,
                     sell_condition |-> sell, exit_long |-> xl,
                     exit_short |-> xs,
                     signal |-> [k \in 1..n |-> AppliedSignal(buy[k], sell[k])],
                     position |-> 0, i |-> 0]
    /\ signals = <<>>
    /\ initial_capital = Rat(100)
    /\ position_size = One
    /\ stop_loss \in { <<1, 100>>, Half }
    /\ reinvest_profits = TRUE
    /\ portfolio = <<>>
    /\ i = 0
    /\ position = 0
    /\ entry_price = Zero
    /\ entry_time = 0
    /\ daily_start_value = initial_capital
    /\ total_value = Zero
    /\ pc = "strategy"
    /\ results = [returned |-> FALSE]
    /\ earlier = [returned |-> FALSE]
    /\ strategies = <<>>
    /\ comparison = [results |-> <<>>, best_strategy |-> 0]

\* signals = strategy.generate_signals(data) has returned: run() builds the
\* portfolio from the signals and enters its loop
RunWithSignals ==
    /\ pc = "strategy"
    /\ call.method = "generate_signals"
    /\ call.i = Len(call.signal)
    /\ Len(data) = Len(call.signal)
    /\ BeginRun(call.signal)
    /\ UNCHANGED <<data, initial_capital, position_size, stop_loss,
                   reinvest_profits, earlier, strategies, comparison, call>>

NextDriven ==
    \/ NextExit
    \/ RunWithSignals
    \/ Next

SpecDriven == InitDriven /\ [][NextDriven]_vars

-----------------------------------------------------------------------------
(* Order of the adapted windows *)

\* the call adapts the parameters of one of the two moving-average strategies
MovingAverageVariant ==
    call.variant \in {"moving_average", "moving_average_volume_compensated"}

\* C38: when the base short_window is smaller than the base long_window, the
\* parameters a moving-average strategy returns have short_window smaller
\* than long_window, for every volatility label and trend label
C38_WindowsStayOrdered ==
    (/\ Adapting
     /\ MovingAverageVariant
     /\ call.at = "returned"
     /\ call.base_params.short_window < call.base_params.long_window) =>
        call.adapted_params.short_window < call.adapted_params.long_window

-----------------------------------------------------------------------------
(* Exit overrides in the simulator *)

\* the signal of bar k was written by the exit rule: neither the buy nor the
\* sell condition set it
ExitProduced(k) ==
    /\ call.method = "generate_signals"
    /\ k \in DOMAIN call.signal
    /\ call.signal[k] # 0
    /\ AppliedSignal(call.buy_condition[k], call.sell_condition[k]) = 0

====
